---- MODULE Spec2Model ----
(***************************************************************************)
(* Trade ledger and valuation core of the stock dashboard (src/app.py).    *)
(*                                                                         *)
(* The persisted JSON documents are the state: portfolio (accounts with    *)
(* their holdings), trades (the trade log), history (daily snapshots) and  *)
(* settings (target allocations, rebalance threshold).  Every Dash         *)
(* callback loads the documents it needs, changes them and saves them, so  *)
(* one action is one callback invocation.                                  *)
(*                                                                         *)
(* Numbers: the program computes in Python floats.  Share counts, prices   *)
(* and targets are drawn from small integers; every quotient the program   *)
(* forms (avg_cost, percentages, amounts) is kept as an exact fraction     *)
(* [n, d] in lowest terms, so that no equality holds or fails by rounding. *)
(* Fields that no modelled computation reads (fees, notes) are left out of *)
(* the records.                                                            *)
(***************************************************************************)
EXTENDS FiniteSets, Integers, Sequences, TLC

VARIABLES
    portfolio,   \* portfolio.json "accounts": sequence of [id, name, holdings]
    trades,      \* trades.json "trades": sequence of trade records (log order)
    next_id,     \* the next fresh identifier uuid.uuid4() hands out
    realized,    \* result of the last calculate_realized_gains call
    gains_done,  \* TRUE once calculate_realized_gains has run on trades
    history,     \* portfolio_history.json "snapshots"
    clock,       \* calendar day that datetime.now() reports
    snapshot,    \* value returned by the last record_portfolio_snapshot call
    settings,    \* settings.json: [target_allocations, rebalance_threshold]
    quotes,      \* what the price provider answers per ticker (0: no data)
    rebalance,   \* the rebalancing suggestions update_analytics rendered
    alerts,      \* alerts.json "alerts": sequence of alert records
    calls,       \* callbacks in flight (trades, alerts): their local copies
    trend        \* what the last create_portfolio_trend_graph call did

vars == <<portfolio, trades, next_id, realized, gains_done, history, clock,
          snapshot, settings, quotes, rebalance,
                   alerts, calls, trend>>

----------------------------------------------------------------------------
(* Bounds and input domains *)

MaxTrades == 3          \* ApplyTrade calls per behaviour when only trades are added
MaxLedgerTrades == 2    \* ApplyTrade calls per behaviour when trades are also deleted

Tickers == {"X", "Y"}
Dates == {1, 2}         \* trade dates; ISO strings compare like day numbers
ShareAmounts == {1, 2}
Prices == {1, 3}
Actions == {"BUY", "SELL"}

----------------------------------------------------------------------------
(* Exact fractions standing for the program's float quotients *)

Abs(x) == IF x < 0 THEN -x ELSE x

Min(a, b) == IF a <= b THEN a ELSE b

RECURSIVE Gcd(_, _)
Gcd(a, b) == IF b = 0 THEN a ELSE Gcd(b, a % b)

\* n/d in lowest terms with a positive denominator (d # 0)
Rat(n, d) ==
    LET s == IF d < 0 THEN -1 ELSE 1
        g == Gcd(Abs(n), Abs(d))
    IN [n |-> (s * n) \div g, d |-> (s * d) \div g]

ToRat(i) == [n |-> i, d |-> 1]

RAdd(a, b) == Rat(a.n * b.d + b.n * a.d, a.d * b.d)
RSub(a, b) == Rat(a.n * b.d - b.n * a.d, a.d * b.d)
RMul(a, b) == Rat(a.n * b.n, a.d * b.d)
RDiv(a, b) == Rat(a.n * b.d, a.d * b.n)
RLess(a, b) == a.n * b.d < b.n * a.d
RAbs(a) == [n |-> Abs(a.n), d |-> a.d]
RZero == ToRat(0)

----------------------------------------------------------------------------
(* List helpers *)

\* the first of a set of list indices, 0 when the set is empty
FirstIndex(S) ==
    IF S = {} THEN 0 ELSE CHOOSE i \in S : \A j \in S : i <= j

RemoveAt(seq, i) == SubSeq(seq, 1, i - 1) \o SubSeq(seq, i + 1, Len(seq))

IsSortedByDate(s) == \A i \in 1..(Len(s) - 1) : s[i].date <= s[i + 1].date

\* stable sort by rank: an element goes after every element with a smaller
\* key and after the earlier elements with the same key
RankSort(s) ==
    LET n == Len(s)
        pos == [j \in 1..n |->
                  Cardinality({k \in 1..n : \/ s[k].date < s[j].date
                                            \/ s[k].date = s[j].date /\ k < j}) + 1]
               @@ <<>>
    IN [i \in 1..n |-> s[CHOOSE j \in 1..n : pos[j] = i]]

\* sorted(seq, key=lambda x: x['date']): stable.  A list whose front is
\* already in order only needs its last element inserted after the elements
\* with keys <= its own; any other list is sorted by rank.
SortByDate(s) ==
    LET n == Len(s) IN
    IF n <= 1 THEN s
    ELSE LET front == SubSeq(s, 1, n - 1)
             x == s[n]
         IN IF IsSortedByDate(front)
            THEN LET k == Cardinality({i \in 1..(n - 1) : front[i].date <= x.date})
                 IN SubSeq(front, 1, k) \o <<x>> \o SubSeq(front, k + 1, n - 1)
            ELSE RankSort(s)

----------------------------------------------------------------------------
(* Portfolio helpers *)

AccountIndex(pf, account_id) ==
    FirstIndex({i \in 1..Len(pf) : pf[i].id = account_id})

HoldingIndex(holdings, ticker) ==
    FirstIndex({i \in 1..Len(holdings) : holdings[i].ticker = ticker})

AccountIds(pf) == {pf[i].id : i \in 1..Len(pf)}

HoldingsOf(pf, account_id) ==
    IF AccountIndex(pf, account_id) = 0 THEN <<>>
    ELSE pf[AccountIndex(pf, account_id)].holdings

\* the (first) holding of a ticker as the ledger sees it: a one-element
\* list with its shares and avg_cost, the empty list when there is none
HoldingView(holdings, ticker) ==
    IF HoldingIndex(holdings, ticker) = 0 THEN <<>>
    ELSE LET h == holdings[HoldingIndex(holdings, ticker)]
         IN <<[shares |-> h.shares, avg_cost |-> h.avg_cost]>>

NewAccount(id) == [id |-> id, name |-> id, holdings |-> <<>>]

----------------------------------------------------------------------------
(* manage_trades: add trade (ApplyTrade) and delete trade (ReverseTrade) *)

\* a BUY that overwrites the share count instead of adding to it
BuyIntoHolding_Overwrite(holding, shares_float, price_float) ==
    [holding EXCEPT
       !.avg_cost = RDiv(RAdd(RMul(ToRat(holding.shares), holding.avg_cost),
                              ToRat(shares_float * price_float)),
                         ToRat(holding.shares + shares_float)),
       !.shares = shares_float]

\* a BUY that averages the two prices without weighting them by shares
BuyIntoHolding_Unweighted(holding, shares_float, price_float) ==
    [holding EXCEPT
       !.avg_cost = RDiv(RAdd(holding.avg_cost, ToRat(price_float)), ToRat(2)),
       !.shares = holding.shares + shares_float]

\* "Calculate new average cost": BUY onto an existing holding
BuyIntoHolding(holding, shares_float, price_float) ==
    LET old_total == RMul(ToRat(holding.shares), holding.avg_cost)
        new_total == ToRat(shares_float * price_float)
        new_shares == holding.shares + shares_float
    IN [holding EXCEPT
          !.avg_cost = IF new_shares > 0
                       THEN RDiv(RAdd(old_total, new_total), ToRat(new_shares))
                       ELSE @,
          !.shares = new_shares]

\* a SELL that keeps a holding sold down to no shares
SellFromHoldings_KeepZero(holdings, hi, shares_float) ==
    LET left == holdings[hi].shares - shares_float
    IN IF left < 0 THEN RemoveAt(holdings, hi)
       ELSE [holdings EXCEPT ![hi].shares = left]

\* SELL from an existing holding (the holding at index hi)
SellFromHoldings(holdings, hi, shares_float) ==
    LET left == holdings[hi].shares - shares_float
    IN IF left <= 0 THEN RemoveAt(holdings, hi)
       ELSE [holdings EXCEPT ![hi].shares = left]

\* "Sync trade to portfolio holdings", inside the matching account
SyncHoldings(holdings, action, ticker_clean, shares_float, price_float) ==
    LET hi == HoldingIndex(holdings, ticker_clean)
    IN IF hi # 0
       THEN IF action = "BUY"
            THEN [holdings EXCEPT
                    ![hi] = BuyIntoHolding(holdings[hi], shares_float, price_float)]
            ELSE SellFromHoldings(holdings, hi, shares_float)
       ELSE IF action = "BUY"
            THEN Append(holdings, [ticker |-> ticker_clean,
                                   shares |-> shares_float,
                                   avg_cost |-> ToRat(price_float)])
            ELSE holdings

\* the trade synced into every account, whatever its account_id
SyncTradeToPortfolio_EveryAccount(pf, t) ==
    [i \in 1..Len(pf) |->
        [pf[i] EXCEPT !.holdings =
            SyncHoldings(@, t.action, t.ticker, t.shares, t.price)]]

\* the loop over portfolio['accounts']: first account with the id, then break
SyncTradeToPortfolio(pf, t) ==
    LET ai == AccountIndex(pf, t.account_id)
    IN IF ai = 0 THEN pf
       ELSE [pf EXCEPT ![ai].holdings =
                SyncHoldings(pf[ai].holdings, t.action, t.ticker, t.shares, t.price)]

\* "Reverse the portfolio changes" of a trade being deleted
ReverseHoldings(holdings, t) ==
    LET hi == HoldingIndex(holdings, t.ticker)
    IN IF hi = 0 THEN holdings
       ELSE IF t.action = "BUY"
            THEN SellFromHoldings(holdings, hi, t.shares)
            ELSE [holdings EXCEPT ![hi].shares = @ + t.shares]

ReversePortfolioChanges(pf, t) ==
    LET ai == AccountIndex(pf, t.account_id)
    IN IF ai = 0 THEN pf
       ELSE [pf EXCEPT ![ai].holdings = ReverseHoldings(pf[ai].holdings, t)]

TradeIndex(log, trade_id) ==
    FirstIndex({i \in 1..Len(log) : log[i].id = trade_id})

WithoutTrade(log, trade_id) ==
    LET Keep(t) == t.id # trade_id IN SelectSeq(log, Keep)

LedgerIdle == UNCHANGED <<realized, gains_done, history, clock, snapshot,
                          settings, quotes, rebalance,
                   alerts, calls, trend>>

\* trade-add-btn: every field is filled in (all([...]) is true)
ApplyTrade(account_id, trade_date, action, ticker, shares, price) ==
    /\ LET new_trade == [id |-> next_id, date |-> trade_date,
                         account_id |-> account_id, ticker |-> ticker,
                         action |-> action, shares |-> shares, price |-> price]
       IN /\ trades' = Append(trades, new_trade)
          /\ portfolio' = SyncTradeToPortfolio(portfolio, new_trade)
    /\ next_id' = next_id + 1
    /\ LedgerIdle

\* trade-delete button of a listed trade
ReverseTrade(trade_id) ==
    /\ portfolio' = IF TradeIndex(trades, trade_id) # 0
                    THEN ReversePortfolioChanges(portfolio,
                                                 trades[TradeIndex(trades, trade_id)])
                    ELSE portfolio
    /\ trades' = WithoutTrade(trades, trade_id)
    /\ UNCHANGED next_id
    /\ LedgerIdle

TradeIds(log) == {log[i].id : i \in 1..Len(log)}

IdleDocs ==
    /\ realized = <<>>
    /\ gains_done = FALSE
    /\ history = <<>>
    /\ clock = 1
    /\ snapshot = <<>>
    /\ settings = [target_allocations |-> <<>>, rebalance_threshold |-> 5]
    /\ quotes = <<>>
    /\ rebalance = <<>>
    /\ alerts = <<>>
    /\ calls = <<>>
    /\ trend = <<>>

\* two accounts the user has created, nothing traded yet
InitLedger ==
    /\ portfolio = <<NewAccount("a1"), NewAccount("a2")>>
    /\ trades = <<>>
    /\ next_id = 1
    /\ IdleDocs

LedgerAccounts == {"a1", "a2"}

AddAnyTrade ==
    \E a \in LedgerAccounts, d \in Dates, act \in Actions, x \in Tickers,
       s \in ShareAmounts, p \in Prices :
        /\ next_id <= MaxLedgerTrades
        /\ ApplyTrade(a, d, act, x, s, p)

DeleteAnyTrade == \E id \in TradeIds(trades) : ReverseTrade(id)

\* ApplyTrade only: the date plays no part in ApplyTrade, so one date is
\* drawn; two tickers in one account and one ticker in two accounts
ApplyPairs == {<<"a1", "X">>, <<"a1", "Y">>, <<"a2", "X">>}

AddTradeSameDay ==
    \E pr \in ApplyPairs, act \in Actions, s \in ShareAmounts, p \in Prices :
        /\ next_id <= MaxTrades
        /\ ApplyTrade(pr[1], 1, act, pr[2], s, p)

NextApply == AddTradeSameDay

SpecApply == InitLedger /\ [][NextApply]_vars

NextLedger == AddAnyTrade \/ DeleteAnyTrade

SpecLedger == InitLedger /\ [][NextLedger]_vars

----------------------------------------------------------------------------
(* manage_portfolio, delete_portfolio_holding, handle_trades_csv_import *)

MaxAccounts == 2        \* accounts the portfolio may hold
MaxHoldings == 2        \* holdings per account that "Add" may build up
MaxSpecTrades == 1      \* trade ids handed out when every operation is enabled
MaxCsvRows == 1         \* rows of an imported CSV file

AccountIdPool == {"a1", "a2", "a3"}
AccountNames == {"A", "B"}
CsvTickers == {"X", "BTC"}
CsvShares == {0, 1}     \* 'Amount of Stock'; a row with shares <= 0 is skipped
CsvPrices == {0, 3}     \* _get_current_price_for_import; 0: no price
ManualShares == {2}     \* holding-shares typed into the "Add" form
ManualCosts == {1}      \* holding-cost typed into the "Add" form

CRYPTO_MAP ==
    [t \in {"BTC", "ETH", "SOL", "XRP", "DOGE"} |->
        CASE t = "BTC" -> "BTC-USD" [] t = "ETH" -> "ETH-USD"
          [] t = "SOL" -> "SOL-USD" [] t = "XRP" -> "XRP-USD"
          [] t = "DOGE" -> "DOGE-USD"]

\* _get_yf_ticker_for_import (tickers are written in upper case, no blanks)
get_yf_ticker_for_import(ticker) ==
    IF ticker \in DOMAIN CRYPTO_MAP THEN CRYPTO_MAP[ticker] ELSE ticker

\* uuid.uuid4() for an account: an id nothing in the documents refers to
FreshAccountIds(pf, log) ==
    AccountIdPool
      \ (AccountIds(pf) \cup {log[i].account_id : i \in 1..Len(log)})

FreshAccountId(pf, log) == CHOOSE id \in FreshAccountIds(pf, log) : TRUE

HasFreshAccountId(pf, log) == FreshAccountIds(pf, log) # {}

PortfolioIdle == UNCHANGED <<trades, next_id, realized, gains_done, history,
                             clock, snapshot, settings, quotes, rebalance,
                   alerts, calls, trend>>

\* account-add-btn with a name typed in
AccountAdd(new_account_name) ==
    /\ Len(portfolio) < MaxAccounts
    /\ HasFreshAccountId(portfolio, trades)
    /\ portfolio' = Append(portfolio,
                           [id |-> FreshAccountId(portfolio, trades),
                            name |-> new_account_name, holdings |-> <<>>])
    /\ PortfolioIdle

\* account-delete button
AccountDelete(account_id) ==
    /\ portfolio' = SelectSeq(portfolio, LAMBDA a : a.id # account_id)
    /\ PortfolioIdle

\* holding-add-btn of an account card: ticker, shares and avg cost typed in;
\* priced says whether yf.Ticker(ticker).fast_info.last_price is truthy
HoldingAdd(account_id, ticker, shares, cost, priced) ==
    /\ AccountIndex(portfolio, account_id) # 0
    /\ Len(HoldingsOf(portfolio, account_id)) < MaxHoldings
    /\ portfolio' =
         IF priced
         THEN [portfolio EXCEPT ![AccountIndex(portfolio, account_id)].holdings =
                 Append(@, [ticker |-> ticker, shares |-> shares,
                            avg_cost |-> ToRat(cost)])]
         ELSE portfolio
    /\ PortfolioIdle

\* acc['holdings'] = [h for h in acc['holdings'] if h['ticker'] != ticker]
WithoutTicker(pf, account_id, ticker) ==
    LET ai == AccountIndex(pf, account_id)
    IN IF ai = 0 THEN pf
       ELSE [pf EXCEPT ![ai].holdings =
                SelectSeq(@, LAMBDA h : h.ticker # ticker)]

\* holding-remove button of a holdings row
HoldingRemove(account_id, ticker_to_remove) ==
    /\ portfolio' = WithoutTicker(portfolio, account_id, ticker_to_remove)
    /\ PortfolioIdle

\* portfolio-holding-delete button on the portfolio page
delete_portfolio_holding(account_id, ticker) ==
    /\ portfolio' = WithoutTicker(portfolio, account_id, ticker)
    /\ PortfolioIdle

\* account_map[account_name]: the dict keeps the last account of a name
AccountIdByName(pf, name) ==
    LET S == {i \in 1..Len(pf) : pf[i].name = name}
    IN IF S = {} THEN "" ELSE pf[CHOOSE i \in S : \A j \in S : j <= i].id

\* "Update existing - average cost" / append of one imported row
ImportHolding(holdings, yf_ticker, shares, price) ==
    LET hi == HoldingIndex(holdings, yf_ticker)
    IN IF hi # 0
       THEN LET h == holdings[hi]
                old_total == RMul(ToRat(h.shares), h.avg_cost)
                new_total == ToRat(shares * price)
            IN [holdings EXCEPT
                  ![hi] = [h EXCEPT
                             !.shares = h.shares + shares,
                             !.avg_cost = RDiv(RAdd(old_total, new_total),
                                               ToRat(h.shares + shares))]]
       ELSE Append(holdings, [ticker |-> yf_ticker, shares |-> shares,
                              avg_cost |-> ToRat(price)])

\* one pass of "for row in rows" over the documents st = [pf, log, id]
ImportRow(st, row, price_of, today) ==
    IF row.account = "" \/ row.ticker = "" \/ row.shares <= 0 THEN st
    ELSE LET known == AccountIdByName(st.pf, row.account) # ""
             pf1 == IF known THEN st.pf
                    ELSE Append(st.pf, [id |-> FreshAccountId(st.pf, st.log),
                                        name |-> row.account,
                                        holdings |-> <<>>])
             account_id == AccountIdByName(pf1, row.account)
             yf_ticker == get_yf_ticker_for_import(row.ticker)
             price == price_of[yf_ticker]
             ai == AccountIndex(pf1, account_id)
         IN IF price <= 0 THEN [st EXCEPT !.pf = pf1]
            ELSE [pf |-> [pf1 EXCEPT ![ai].holdings =
                            ImportHolding(@, yf_ticker, row.shares, price)],
                  log |-> Append(st.log,
                                 [id |-> st.id, date |-> today,
                                  account_id |-> account_id,
                                  ticker |-> yf_ticker, action |-> "BUY",
                                  shares |-> row.shares, price |-> price]),
                  id |-> st.id + 1]

RECURSIVE ImportRows(_, _, _, _)
ImportRows(st, rows, price_of, today) ==
    IF rows = <<>> THEN st
    ELSE ImportRows(ImportRow(st, Head(rows), price_of, today),
                    Tail(rows), price_of, today)

CsvRow == [account : AccountNames, ticker : CsvTickers, shares : CsvShares]

CsvFiles == UNION {[1..n -> CsvRow] : n \in 1..MaxCsvRows}

CsvYfTickers == {get_yf_ticker_for_import(t) : t \in CsvTickers}

\* the account names of the rows read that no account carries yet
NewAccountNames(pf, rows) ==
    {rows[k].account : k \in {k \in 1..Len(rows) : rows[k].shares > 0}}
      \ {pf[i].name : i \in 1..Len(pf)}

\* trades-csv-import-btn with a stored file
handle_trades_csv_import(rows, price_of) ==
    LET out == ImportRows([pf |-> portfolio, log |-> trades, id |-> next_id],
                          rows, price_of, clock)
    IN /\ next_id + Len(rows) <= MaxSpecTrades + 1
       /\ Len(portfolio) + Cardinality(NewAccountNames(portfolio, rows))
            <= MaxAccounts
       /\ Cardinality(FreshAccountIds(portfolio, trades))
            >= Cardinality(NewAccountNames(portfolio, rows))
       /\ portfolio' = out.pf
       /\ trades' = out.log
       /\ next_id' = out.id
       /\ LedgerIdle

\* one account the user has created, nothing traded yet
Init ==
    /\ portfolio = <<[id |-> "a1", name |-> "A", holdings |-> <<>>]>>
    /\ trades = <<>>
    /\ next_id = 1
    /\ IdleDocs

AddTrade ==
    \E a \in AccountIds(portfolio), act \in Actions, x \in Tickers,
       s \in ShareAmounts, p \in Prices :
        /\ next_id <= MaxSpecTrades
        /\ ApplyTrade(a, clock, act, x, s, p)

HeldTickers(pf) ==
    UNION {{pf[i].holdings[k].ticker : k \in 1..Len(pf[i].holdings)} :
              i \in 1..Len(pf)}

Next ==
    \/ AddTrade
    \/ DeleteAnyTrade
    \/ \E name \in AccountNames : AccountAdd(name)
    \/ \E a \in AccountIds(portfolio) : AccountDelete(a)
    \/ \E a \in AccountIds(portfolio), x \in Tickers, s \in ManualShares,
          c \in ManualCosts, priced \in BOOLEAN : HoldingAdd(a, x, s, c, priced)
    \/ \E a \in AccountIds(portfolio), x \in HeldTickers(portfolio) :
          HoldingRemove(a, x)
    \/ \E a \in AccountIds(portfolio), x \in HeldTickers(portfolio) :
          delete_portfolio_holding(a, x)
    \/ \E rows \in CsvFiles, price_of \in [CsvYfTickers -> CsvPrices] :
          handle_trades_csv_import(rows, price_of)

Spec == Init /\ [][Next]_vars

----------------------------------------------------------------------------
(* calculate_realized_gains *)

MaxGainTrades == 3      \* length of the trade logs the calculator is given

\* the trades sorted without sorting: log order taken for date order
SortedTrades_LogOrder(log) == log

\* sorted(trades, key=lambda x: x.get('date', ''))
SortedTrades(log) == SortByDate(log)

\* by_ticker[ticker]['buys'] and ['sells'], in the order of the sorted list
BuyLots(sorted, ticker) ==
    LET mine == SelectSeq(sorted, LAMBDA t : t.ticker = ticker /\ t.action = "BUY")
    IN [i \in 1..Len(mine) |-> [shares |-> mine[i].shares,
                                price |-> mine[i].price,
                                remaining |-> mine[i].shares]]

SellEvents(sorted, ticker) ==
    LET mine == SelectSeq(sorted, LAMBDA t : t.ticker = ticker /\ t.action # "BUY")
    IN [i \in 1..Len(mine) |-> [shares |-> mine[i].shares,
                                price |-> mine[i].price]]

\* "FIFO: use oldest buys first": the loop over the buys from lot i on, for
\* one sell; acc = [buys, total_cost]
RECURSIVE ConsumeLots(_, _, _)
ConsumeLots(acc, i, shares_to_sell) ==
    IF i > Len(acc.buys) \/ shares_to_sell <= 0 THEN acc
    ELSE IF acc.buys[i].remaining <= 0
         THEN ConsumeLots(acc, i + 1, shares_to_sell)
         ELSE LET used == Min(acc.buys[i].remaining, shares_to_sell)
              IN ConsumeLots(
                   [buys |-> [acc.buys EXCEPT ![i].remaining = @ - used],
                    total_cost |-> acc.total_cost + used * acc.buys[i].price],
                   i + 1, shares_to_sell - used)

\* the loop over the sells of one ticker; acc carries the lots and totals
RECURSIVE MatchSells(_, _)
MatchSells(acc, sells) ==
    IF sells = <<>> THEN acc
    ELSE LET sell == Head(sells)
             lots == ConsumeLots([buys |-> acc.buys, total_cost |-> acc.total_cost],
                                 1, sell.shares)
         IN MatchSells([buys |-> lots.buys,
                        total_cost |-> lots.total_cost,
                        total_proceeds |-> acc.total_proceeds + sell.shares * sell.price,
                        total_shares_sold |-> acc.total_shares_sold + sell.shares],
                       Tail(sells))

\* a record whose gain forgets the cost basis
RealizedRecord_NoCost(m) ==
    [shares_sold |-> m.total_shares_sold, cost_basis |-> m.total_cost,
     proceeds |-> m.total_proceeds, gain |-> m.total_proceeds]

\* realized[ticker] = {...}
RealizedRecord(m) ==
    [shares_sold |-> m.total_shares_sold, cost_basis |-> m.total_cost,
     proceeds |-> m.total_proceeds, gain |-> m.total_proceeds - m.total_cost]

TickerTotals(sorted, ticker) ==
    MatchSells([buys |-> BuyLots(sorted, ticker), total_cost |-> 0,
                total_proceeds |-> 0, total_shares_sold |-> 0],
               SellEvents(sorted, ticker))

calculate_realized_gains(log) ==
    LET sorted == SortedTrades(log)
        by_ticker == {sorted[i].ticker : i \in 1..Len(sorted)}
        kept == {x \in by_ticker :
                    /\ SellEvents(sorted, x) # <<>>
                    /\ TickerTotals(sorted, x).total_shares_sold > 0}
    IN [x \in kept |-> RealizedRecord(TickerTotals(sorted, x))]

\* trade logs handed to the calculator: ticker X on two dates with BUY lots
\* at two prices, ticker Y with one kind of BUY and of SELL
GainInputs ==
    [ticker : {"X"}, date : Dates, action : {"BUY"},
     shares : ShareAmounts, price : Prices]
    \cup [ticker : {"X"}, date : Dates, action : {"SELL"},
          shares : ShareAmounts, price : {2}]
    \cup [ticker : {"Y"}, date : {1}, action : Actions,
          shares : {1}, price : {2}]

AsLog(inputs) ==
    [i \in 1..Len(inputs) |->
        [id |-> i, date |-> inputs[i].date, account_id |-> "a1",
         ticker |-> inputs[i].ticker, action |-> inputs[i].action,
         shares |-> inputs[i].shares, price |-> inputs[i].price]]

\* the logs of n trades
GainLogs(n) == {AsLog(l) : l \in [1..n -> GainInputs]}

\* BUY 10 @ 100, BUY 10 @ 110, SELL 15 @ 130 of one ticker
ExampleLog ==
    AsLog(<<[ticker |-> "X", date |-> 1, action |-> "BUY", shares |-> 10, price |-> 100],
            [ticker |-> "X", date |-> 1, action |-> "BUY", shares |-> 10, price |-> 110],
            [ticker |-> "X", date |-> 2, action |-> "SELL", shares |-> 15, price |-> 130]>>)

InitGains ==
    /\ portfolio = <<NewAccount("a1")>>
    /\ \E n \in 0..MaxGainTrades : trades \in GainLogs(n) \cup {ExampleLog}
    /\ next_id = Len(trades) + 1
    /\ IdleDocs

\* the end of manage_trades: "Calculate realized gains (FIFO)"
ComputeGains ==
    /\ ~gains_done
    /\ realized' = calculate_realized_gains(trades)
    /\ gains_done' = TRUE
    /\ UNCHANGED <<portfolio, trades, next_id, history, clock, snapshot,
                   settings, quotes, rebalance,
                   alerts, calls, trend>>

NextGains == ComputeGains

SpecGains == InitGains /\ [][NextGains]_vars

----------------------------------------------------------------------------
(* record_portfolio_snapshot *)

HistoryCap == 365       \* [-365:]
MaxNewDays == 2         \* days the clock may advance past the first new day
FirstNewDay == HistoryCap + 1
QuotePrices == {0, 1}   \* 0: history(period="1d") is empty or raises

\* the values of one account: holdings without a quote add nothing
AccountData(account, price_of) ==
    LET priced == SelectSeq(account.holdings, LAMBDA h : price_of[h.ticker] # 0)
        ValueUpTo[i \in 0..Len(priced)] ==
            IF i = 0 THEN RZero
            ELSE RAdd(ValueUpTo[i - 1],
                      ToRat(price_of[priced[i].ticker] * priced[i].shares))
        CostUpTo[i \in 0..Len(priced)] ==
            IF i = 0 THEN RZero
            ELSE RAdd(CostUpTo[i - 1],
                      RMul(priced[i].avg_cost, ToRat(priced[i].shares)))
    IN [name |-> account.name,
        value |-> ValueUpTo[Len(priced)],
        cost |-> CostUpTo[Len(priced)]]

\* snapshot = {'date': today, 'accounts': ..., 'total_value', 'total_cost'}
NewSnapshot(pf, price_of, today) ==
    LET accounts_data == [id \in AccountIds(pf) |->
                            AccountData(pf[AccountIndex(pf, id)], price_of)]
        ValueUpTo[i \in 0..Len(pf)] ==
            IF i = 0 THEN RZero
            ELSE RAdd(ValueUpTo[i - 1], accounts_data[pf[i].id].value)
        CostUpTo[i \in 0..Len(pf)] ==
            IF i = 0 THEN RZero
            ELSE RAdd(CostUpTo[i - 1], accounts_data[pf[i].id].cost)
    IN [date |-> today, accounts |-> accounts_data,
        total_value |-> ValueUpTo[Len(pf)], total_cost |-> CostUpTo[Len(pf)]]

\* today's snapshot is kept when one is already there
WithoutToday_Keep(snapshots, today) == snapshots

\* "Update today's snapshot instead of adding new one": the first snapshot
\* dated today is removed
WithoutToday(snapshots, today) ==
    LET i == FirstIndex({k \in 1..Len(snapshots) : snapshots[k].date = today})
    IN IF i = 0 THEN snapshots ELSE RemoveAt(snapshots, i)

\* the first 365 entries are kept
KeepLast_First(snapshots) ==
    IF Len(snapshots) <= HistoryCap THEN snapshots
    ELSE SubSeq(snapshots, 1, HistoryCap)

\* [-365:]
KeepLast(snapshots) ==
    IF Len(snapshots) <= HistoryCap THEN snapshots
    ELSE SubSeq(snapshots, Len(snapshots) - HistoryCap + 1, Len(snapshots))

record_portfolio_snapshot ==
    LET today == clock
        new == NewSnapshot(portfolio, quotes, today)
    IN /\ history' = KeepLast(SortByDate(Append(WithoutToday(history, today), new)))
       /\ snapshot' = <<new>>
       /\ UNCHANGED <<portfolio, trades, next_id, realized, gains_done, clock,
                      settings, quotes, rebalance,
                   alerts, calls, trend>>

\* datetime.now() on the next day
DayPasses ==
    /\ clock < FirstNewDay + MaxNewDays - 1
    /\ clock' = clock + 1
    /\ UNCHANGED <<portfolio, trades, next_id, realized, gains_done, history,
                   snapshot, settings, quotes, rebalance,
                   alerts, calls, trend>>

\* the wall clock is set back a day (datetime.now() is not monotonic)
ClockSetBack ==
    /\ clock > FirstNewDay - 1
    /\ clock' = clock - 1
    /\ UNCHANGED <<portfolio, trades, next_id, realized, gains_done, history,
                   snapshot, settings, quotes, rebalance,
                   alerts, calls, trend>>

\* the market data of one ticker changes
QuoteChanges(ticker, price) ==
    /\ quotes[ticker] # price
    /\ quotes' = [quotes EXCEPT ![ticker] = price]
    /\ UNCHANGED <<portfolio, trades, next_id, realized, gains_done, history,
                   clock, snapshot, settings, rebalance,
                   alerts, calls, trend>>

SnapshotPortfolio ==
    <<[id |-> "a1", name |-> "A",
       holdings |-> <<[ticker |-> "X", shares |-> 2, avg_cost |-> ToRat(1)],
                      [ticker |-> "Y", shares |-> 1, avg_cost |-> ToRat(3)]>>]>>

BaseQuotes == [x \in Tickers |-> 1]

\* a history recorded on the n days before the first new day
RecordedHistory(n) ==
    [i \in 1..n |-> NewSnapshot(SnapshotPortfolio, BaseQuotes, FirstNewDay - n + i - 1)]

InitLengths == {0, HistoryCap - 1, HistoryCap}

InitSnapshot ==
    /\ portfolio = SnapshotPortfolio
    /\ trades = <<>>
    /\ next_id = 1
    /\ realized = <<>>
    /\ gains_done = FALSE
    /\ history \in {RecordedHistory(n) : n \in InitLengths}
    /\ clock = FirstNewDay
    /\ snapshot = <<>>
    /\ settings = [target_allocations |-> <<>>, rebalance_threshold |-> 5]
    /\ quotes = BaseQuotes
    /\ rebalance = <<>>
    /\ alerts = <<>>
    /\ calls = <<>>
    /\ trend = <<>>

NextSnapshot ==
    \/ record_portfolio_snapshot
    \/ DayPasses
    \/ ClockSetBack
    \/ \E x \in Tickers, p \in QuotePrices : QuoteChanges(x, p)

SpecSnapshot == InitSnapshot /\ [][NextSnapshot]_vars

----------------------------------------------------------------------------
(* update_analytics: rebalancing suggestions, and manage_settings *)

TargetPcts == {20, 80}
Thresholds == {4, 5}
AnalyticsPath == "/portfolio/analytics"
Pathnames == {AnalyticsPath, "/settings"}

\* get_stock_quick_data: the price, 0 standing for None
get_stock_quick_data(price_of, ticker) == price_of[ticker]

\* every holding of every account, in the order of the two loops
RECURSIVE AllHoldings(_)
AllHoldings(pf) ==
    IF pf = <<>> THEN <<>> ELSE Head(pf).holdings \o AllHoldings(Tail(pf))

\* holdings_data[ticker]['value'] and total_value: holdings without data
\* are left out
PricedHoldings(pf, price_of) ==
    SelectSeq(AllHoldings(pf), LAMBDA h : get_stock_quick_data(price_of, h.ticker) # 0)

RECURSIVE ValueOf(_, _)
ValueOf(hs, price_of) ==
    IF hs = <<>> THEN 0
    ELSE get_stock_quick_data(price_of, Head(hs).ticker) * Head(hs).shares
         + ValueOf(Tail(hs), price_of)

holdings_data(pf, price_of) ==
    LET priced == PricedHoldings(pf, price_of)
    IN [x \in {priced[i].ticker : i \in 1..Len(priced)} |->
          [value |-> ValueOf(SelectSeq(priced, LAMBDA h : h.ticker = x), price_of)]]

\* the comparison that includes the threshold itself
OverThreshold_Inclusive(diff, threshold) == ~RLess(RAbs(diff), ToRat(threshold))

\* abs(diff) > threshold
OverThreshold(diff, threshold) == RLess(ToRat(threshold), RAbs(diff))

Suggestion(diff, total_value) ==
    IF RLess(RZero, diff)
    THEN [action |-> "SELL",
          amount |-> RMul(RDiv(diff, ToRat(100)), ToRat(total_value))]
    ELSE [action |-> "BUY",
          amount |-> RMul(RAbs(RDiv(diff, ToRat(100))), ToRat(total_value))]

\* the test that does not look at total_value
Applicable_Unguarded(data, target_allocs, total_value) ==
    DOMAIN data # {} /\ DOMAIN target_allocs # {}

\* if holdings_data and target_allocs and total_value > 0
Applicable(data, target_allocs, total_value) ==
    DOMAIN data # {} /\ DOMAIN target_allocs # {} /\ total_value > 0

\* what a division by a total_value of 0 leaves of the page
ZeroDivisionError ==
    [applicable |-> TRUE, suggestions |-> <<>>, error |-> "ZeroDivisionError"]

\* rebalance_content: the suggestions by ticker, or the request to set
\* target allocations
RebalanceContent(pf, price_of, st) ==
    LET target_allocs == st.target_allocations
        threshold == st.rebalance_threshold
        data == holdings_data(pf, price_of)
        total_value == ValueOf(PricedHoldings(pf, price_of), price_of)
    IN IF Applicable(data, target_allocs, total_value)
       THEN IF total_value = 0 THEN ZeroDivisionError
            ELSE
            LET tickers == DOMAIN data \cup DOMAIN target_allocs
                actual_pct(x) ==
                    RMul(Rat(IF x \in DOMAIN data THEN data[x].value ELSE 0,
                             total_value), ToRat(100))
                target_pct(x) ==
                    IF x \in DOMAIN target_allocs THEN target_allocs[x] ELSE 0
                diff(x) == RSub(actual_pct(x), ToRat(target_pct(x)))
            IN [applicable |-> TRUE,
                suggestions |->
                   [x \in {y \in tickers : OverThreshold(diff(y), threshold)} |->
                       Suggestion(diff(x), total_value)]]
       ELSE [applicable |-> FALSE, suggestions |-> <<>>]

update_analytics(pathname) ==
    /\ rebalance' = IF pathname # AnalyticsPath THEN <<>>
                    ELSE RebalanceContent(portfolio, quotes, settings)
    /\ UNCHANGED <<portfolio, trades, next_id, realized, gains_done, history,
                   clock, snapshot, settings, quotes, alerts, calls, trend>>

\* the settings page is open: the analytics page is not
OnSettingsPage == rebalance = <<>>

\* 'target-add-btn'
TargetAdd(target_ticker, target_pct) ==
    /\ OnSettingsPage
    /\ target_pct # 0
    /\ settings' = [settings EXCEPT !.target_allocations =
                      (target_ticker :> target_pct)
                      @@ [x \in DOMAIN @ \ {target_ticker} |-> @[x]]]
    /\ UNCHANGED <<portfolio, trades, next_id, realized, gains_done, history,
                   clock, snapshot, quotes, rebalance,
                   alerts, calls, trend>>

\* 'target-delete'
TargetDelete(ticker_to_remove) ==
    /\ OnSettingsPage
    /\ ticker_to_remove \in DOMAIN settings.target_allocations
    /\ settings' = [settings EXCEPT !.target_allocations =
                      [x \in DOMAIN @ \ {ticker_to_remove} |-> @[x]]]
    /\ UNCHANGED <<portfolio, trades, next_id, realized, gains_done, history,
                   clock, snapshot, quotes, rebalance,
                   alerts, calls, trend>>

\* 'save-settings-btn'
SaveThreshold(threshold) ==
    /\ OnSettingsPage
    /\ threshold # 0
    /\ settings' = [settings EXCEPT !.rebalance_threshold = threshold]
    /\ UNCHANGED <<portfolio, trades, next_id, realized, gains_done, history,
                   clock, snapshot, quotes, rebalance,
                   alerts, calls, trend>>

\* accounts a1 with X and Y, a2 with X; a holding of no shares is not there
HeldPortfolio(x1, y1, x2) ==
    LET H(ticker, shares) ==
            IF shares = 0 THEN <<>>
            ELSE <<[ticker |-> ticker, shares |-> shares, avg_cost |-> ToRat(1)]>>
    IN <<[id |-> "a1", name |-> "A", holdings |-> H("X", x1) \o H("Y", y1)],
         [id |-> "a2", name |-> "B", holdings |-> H("X", x2)]>>

\* the last one: a BUY of -1 share of X and a BUY of 1 share of Y were
\* logged, priced holdings worth 0 in total
RebalancePortfolios ==
    {HeldPortfolio(24, 76, 0), HeldPortfolio(25, 75, 0), HeldPortfolio(26, 74, 0),
     HeldPortfolio(13, 74, 13), HeldPortfolio(1, 0, 0), HeldPortfolio(-1, 1, 0)}

InitRebalance ==
    /\ portfolio \in RebalancePortfolios
    /\ trades = <<>>
    /\ next_id = 1
    /\ realized = <<>>
    /\ gains_done = FALSE
    /\ history = <<>>
    /\ clock = 1
    /\ snapshot = <<>>
    /\ settings = [target_allocations |-> <<>>, rebalance_threshold |-> 5]
    /\ quotes = BaseQuotes
    /\ rebalance = <<>>
    /\ alerts = <<>>
    /\ calls = <<>>
    /\ trend = <<>>

NextRebalance ==
    \/ \E pathname \in Pathnames : update_analytics(pathname)
    \/ \E x \in Tickers, pct \in TargetPcts : TargetAdd(x, pct)
    \/ \E x \in Tickers : TargetDelete(x)
    \/ \E th \in Thresholds : SaveThreshold(th)
    \/ \E x \in Tickers, p \in QuotePrices : OnSettingsPage /\ QuoteChanges(x, p)

SpecRebalance == InitRebalance /\ [][NextRebalance]_vars

----------------------------------------------------------------------------
(* manage_alerts *)

MaxAlertAdds == 2       \* alerts the user adds
MaxAlertDays == 2       \* days the alerts page is used on
AlertTypes == {"ABOVE", "BELOW"}
\* the add form as submitted: ticker, condition, price (0: the price field
\* is left empty)
AlertInputs == (Tickers \X AlertTypes \X {200}) \cup {<<"X", "ABOVE", 0>>}
\* what get_stock_quick_data answers per ticker (0: None)
AlertQuotes == ({"X"} \X {0, 180, 190, 200, 205}) \cup ({"Y"} \X {0, 190})

\* the comparison that leaves out price == target_price
ConditionMet_Strict(alert, current_price) ==
    \/ alert.type = "ABOVE" /\ current_price > alert.target_price
    \/ alert.type = "BELOW" /\ current_price < alert.target_price

\* ABOVE and current_price >= target_price, BELOW and current_price <= target_price
ConditionMet(alert, current_price) ==
    \/ alert.type = "ABOVE" /\ current_price >= alert.target_price
    \/ alert.type = "BELOW" /\ current_price <= alert.target_price

\* the body of the loop with the flag following the condition
EvaluateAlert_Tracking(alert, price_of, today) ==
    LET data == get_stock_quick_data(price_of, alert.ticker)
    IN IF data # 0
       THEN [alert EXCEPT !.triggered = ConditionMet(alert, data),
                          !.triggered_date = IF ConditionMet(alert, data)
                                             THEN today ELSE 0]
       ELSE alert

\* the body of the loop without "if alert['triggered']: continue"
EvaluateAlert_Restamp(alert, price_of, today) ==
    LET data == get_stock_quick_data(price_of, alert.ticker)
    IN IF data # 0 /\ ConditionMet(alert, data)
       THEN [alert EXCEPT !.triggered = TRUE, !.triggered_date = today]
       ELSE alert

\* the body of "for alert in alerts"
EvaluateAlert(alert, price_of, today) ==
    IF alert.triggered THEN alert
    ELSE LET data == get_stock_quick_data(price_of, alert.ticker)
         IN IF data # 0 /\ ConditionMet(alert, data)
            THEN [alert EXCEPT !.triggered = TRUE, !.triggered_date = today]
            ELSE alert

\* a pass that gives up at the first active alert without a quote
EvaluateAlerts_AbortOnFailure(list, price_of, today) ==
    LET failing == {i \in 1..Len(list) :
                       ~list[i].triggered /\ price_of[list[i].ticker] = 0}
    IN [i \in 1..Len(list) |->
          IF \E k \in failing : k <= i THEN list[i]
          ELSE EvaluateAlert(list[i], price_of, today)]

\* "Check alerts and get current prices": the loop, then save_alerts when
\* something triggered
EvaluateAlerts(list, price_of, today) ==
    [i \in 1..Len(list) |-> EvaluateAlert(list[i], price_of, today)]

AlertsIdle ==
    UNCHANGED <<portfolio, trades, realized, gains_done, history, clock,
                snapshot, settings, quotes, rebalance, calls, trend>>

\* 'alert-add-btn', then the evaluation every call ends with
AlertAdd(ticker, condition, target_price) ==
    /\ next_id <= MaxAlertAdds
    /\ IF target_price # 0
       THEN /\ alerts' = EvaluateAlerts(
                            Append(alerts, [id |-> next_id, ticker |-> ticker,
                                            type |-> condition,
                                            target_price |-> target_price,
                                            triggered |-> FALSE,
                                            triggered_date |-> 0]),
                            quotes, clock)
            /\ next_id' = next_id + 1
       ELSE /\ alerts' = EvaluateAlerts(alerts, quotes, clock)
            /\ UNCHANGED next_id
    /\ AlertsIdle

WithoutAlert(list, alert_id) == SelectSeq(list, LAMBDA a : a.id # alert_id)

\* 'alert-delete'
AlertDelete(alert_id) ==
    /\ alerts' = EvaluateAlerts(WithoutAlert(alerts, alert_id), quotes, clock)
    /\ UNCHANGED next_id
    /\ AlertsIdle

\* 'alert-dismiss'
AlertDismiss(alert_id) ==
    /\ alerts' = EvaluateAlerts(WithoutAlert(alerts, alert_id), quotes, clock)
    /\ UNCHANGED next_id
    /\ AlertsIdle

\* the page is loaded: no button, only the evaluation
AlertsPageLoad ==
    /\ alerts' = EvaluateAlerts(alerts, quotes, clock)
    /\ UNCHANGED next_id
    /\ AlertsIdle

\* datetime.now() on the next day
AlertDayPasses ==
    /\ clock < MaxAlertDays
    /\ clock' = clock + 1
    /\ UNCHANGED <<portfolio, trades, next_id, realized, gains_done, history,
                   snapshot, settings, quotes, rebalance, alerts, calls, trend>>

AlertIds(list) == {list[i].id : i \in 1..Len(list)}

InitAlerts ==
    /\ portfolio = <<>>
    /\ trades = <<>>
    /\ next_id = 1
    /\ realized = <<>>
    /\ gains_done = FALSE
    /\ history = <<>>
    /\ clock = 1
    /\ snapshot = <<>>
    /\ settings = [target_allocations |-> <<>>, rebalance_threshold |-> 5]
    /\ quotes = [x \in Tickers |-> 0]
    /\ rebalance = <<>>
    /\ alerts = <<>>
    /\ calls = <<>>
    /\ trend = <<>>

NextAlerts ==
    \/ \E in \in AlertInputs : AlertAdd(in[1], in[2], in[3])
    \/ \E i \in 1..Len(alerts) : ~alerts[i].triggered /\ AlertDelete(alerts[i].id)
    \/ \E i \in 1..Len(alerts) : alerts[i].triggered /\ AlertDismiss(alerts[i].id)
    \/ AlertsPageLoad
    \/ AlertDayPasses
    \/ \E q \in AlertQuotes : QuoteChanges(q[1], q[2])

SpecAlerts == InitAlerts /\ [][NextAlerts]_vars

----------------------------------------------------------------------------
(* manage_trades: what the add form and the delete buttons may send *)

MaxFormTrades == 2      \* trades the add form gets logged
\* the fields of the add form; "" and 0 stand for a field left empty
FormAccounts == {"", "a1", "zz"}        \* zz: the id of no account
FormDates == {0, 1}
FormActions == {"", "BUY", "SELL"}
FormTickers == {"", "X"}
FormShares == {-1, 0, 1, 2}
FormPrices == {-1, 0, 1}

\* all([account_id, trade_date, action, ticker, shares, price])
FormFilled(account_id, trade_date, action, ticker, shares, price) ==
    /\ account_id # ""
    /\ trade_date # 0
    /\ action # ""
    /\ ticker # ""
    /\ shares # 0
    /\ price # 0

\* 'trade-add-btn' with whatever the form holds
SubmitTrade(account_id, trade_date, action, ticker, shares, price) ==
    IF FormFilled(account_id, trade_date, action, ticker, shares, price)
    THEN /\ next_id <= MaxFormTrades
         /\ ApplyTrade(account_id, trade_date, action, ticker, shares, price)
    ELSE UNCHANGED vars

\* 'trade-delete' with the id of a trade that may be gone from the log
RequestDelete(trade_id) == ReverseTrade(trade_id)

NextForm ==
    \/ \E a \in FormAccounts, d \in FormDates, act \in FormActions,
          x \in FormTickers, n \in FormShares, p \in FormPrices :
          SubmitTrade(a, d, act, x, n, p)
    \/ \E id \in 1..(MaxFormTrades + 1) : RequestDelete(id)

SpecForm == InitLedger /\ [][NextForm]_vars

----------------------------------------------------------------------------
(* manage_trades with a repository whose saves may fail *)

MaxSaveTrades == 2      \* add requests
MaxSavedShares == 4     \* shares a holding may reach by repeated reversals

\* save_trades / save_portfolio through _save_data: the document is replaced
\* when the upsert succeeds and left as it was when it fails (the False that
\* _save_data returns is dropped by the caller)
Saved(ok, old, new) == IF ok THEN new ELSE old

\* 'trade-add-btn': save_trades, then the holdings, then save_portfolio
ApplyTradeSaving(account_id, trade_date, action, ticker, shares, price, trades_ok, portfolio_ok) ==
    /\ next_id <= MaxSaveTrades
    /\ LET new_trade == [id |-> next_id, date |-> trade_date,
                         account_id |-> account_id, ticker |-> ticker,
                         action |-> action, shares |-> shares, price |-> price]
       IN /\ trades' = Saved(trades_ok, trades, Append(trades, new_trade))
          /\ portfolio' = Saved(portfolio_ok, portfolio,
                                SyncTradeToPortfolio(portfolio, new_trade))
    /\ next_id' = next_id + 1
    /\ LedgerIdle

\* 'trade-delete': the holdings and save_portfolio when the trade is found,
\* then save_trades
ReverseTradeSaving(trade_id, portfolio_ok, trades_ok) ==
    /\ portfolio' = IF TradeIndex(trades, trade_id) # 0
                    THEN Saved(portfolio_ok, portfolio,
                               ReversePortfolioChanges(
                                   portfolio, trades[TradeIndex(trades, trade_id)]))
                    ELSE portfolio
    /\ trades' = Saved(trades_ok, trades, WithoutTrade(trades, trade_id))
    /\ \A i \in 1..Len(portfolio') : \A k \in 1..Len(portfolio'[i].holdings) :
          portfolio'[i].holdings[k].shares <= MaxSavedShares
    /\ UNCHANGED next_id
    /\ LedgerIdle

NextSaves ==
    \/ \E pr \in ApplyPairs, act \in Actions, n \in ShareAmounts,
          trades_ok \in BOOLEAN, portfolio_ok \in BOOLEAN :
          ApplyTradeSaving(pr[1], 1, act, pr[2], n, 1, trades_ok, portfolio_ok)
    \/ \E id \in TradeIds(trades), portfolio_ok \in BOOLEAN, trades_ok \in BOOLEAN :
          ReverseTradeSaving(id, portfolio_ok, trades_ok)

SpecSaves == InitLedger /\ [][NextSaves]_vars

----------------------------------------------------------------------------
(* Two manage_trades callbacks running in two threads of the server *)

TwoCalls == {1, 2}

\* the ledger the two calls start from: a1 holds 2 X bought with trade 1
BaseTrade ==
    [id |-> 1, date |-> 1, account_id |-> "a1", ticker |-> "X",
     action |-> "BUY", shares |-> 2, price |-> 1]

BaseLedger ==
    [trades |-> <<BaseTrade>>,
     portfolio |-> SyncTradeToPortfolio(<<NewAccount("a1")>>, BaseTrade)]

\* what a call is asked to do on account a1: add a trade (its uuid is i + 1)
\* or delete trade 1
AddRequest(i, action, ticker, shares, price) ==
    [kind |-> "add", trade_id |-> i + 1,
     trade |-> <<[id |-> i + 1, date |-> 1, account_id |-> "a1",
                  ticker |-> ticker, action |-> action,
                  shares |-> shares, price |-> price]>>]

DeleteRequest(trade_id) == [kind |-> "delete", trade_id |-> trade_id, trade |-> <<>>]

Requests(i) ==
    {AddRequest(i, "BUY", "X", 1, 3), AddRequest(i, "SELL", "X", 1, 1),
     AddRequest(i, "BUY", "Y", 1, 1), DeleteRequest(1)}

\* a callback that has not run its first statement yet
NewCall(request) ==
    [request |-> request, pc |-> "load_trades",
     trades_data |-> <<>>, portfolio |-> <<>>]

InitConcurrent ==
    /\ portfolio = BaseLedger.portfolio
    /\ trades = BaseLedger.trades
    /\ next_id = 4
    /\ realized = <<>>
    /\ gains_done = FALSE
    /\ history = <<>>
    /\ clock = 1
    /\ snapshot = <<>>
    /\ settings = [target_allocations |-> <<>>, rebalance_threshold |-> 5]
    /\ quotes = <<>>
    /\ rebalance = <<>>
    /\ alerts = <<>>
    /\ trend = <<>>
    /\ calls \in {[i \in TwoCalls |-> NewCall(r[i])] :
                     r \in {f \in [TwoCalls -> UNION {Requests(i) : i \in TwoCalls}] :
                               \A i \in TwoCalls : f[i] \in Requests(i)}}

CallsIdle ==
    UNCHANGED <<next_id, realized, gains_done, history, clock, snapshot,
                settings, quotes, rebalance, alerts, trend>>

\* trades_data = load_trades()
LoadTrades(i) ==
    /\ calls[i].pc = "load_trades"
    /\ calls' = [calls EXCEPT ![i].trades_data = trades,
                              ![i].pc = "load_portfolio"]
    /\ UNCHANGED <<trades, portfolio>>
    /\ CallsIdle

\* portfolio = load_portfolio()
LoadPortfolio(i) ==
    /\ calls[i].pc = "load_portfolio"
    /\ calls' = [calls EXCEPT ![i].portfolio = portfolio,
                              ![i].pc = "first_save"]
    /\ UNCHANGED <<trades, portfolio>>
    /\ CallsIdle

\* add: the trade is appended to the copy of the log and save_trades writes
\* the copy; delete: the holdings of the copy are reversed and save_portfolio
\* writes the copy, when the trade is in the copy of the log
FirstSave(i) ==
    /\ calls[i].pc = "first_save"
    /\ LET c == calls[i] IN
       IF c.request.kind = "add"
       THEN LET log == Append(c.trades_data, c.request.trade[1])
            IN /\ trades' = log
               /\ calls' = [calls EXCEPT ![i].trades_data = log,
                                         ![i].pc = "second_save"]
               /\ UNCHANGED portfolio
       ELSE LET k == TradeIndex(c.trades_data, c.request.trade_id)
                pf == IF k = 0 THEN c.portfolio
                      ELSE ReversePortfolioChanges(c.portfolio, c.trades_data[k])
            IN /\ portfolio' = IF k = 0 THEN portfolio ELSE pf
               /\ calls' = [calls EXCEPT ![i].portfolio = pf,
                                         ![i].pc = "second_save"]
               /\ UNCHANGED trades
    /\ CallsIdle

\* add: the holdings of the copy are synced and save_portfolio writes the
\* copy; delete: the trade is filtered out of the copy of the log and
\* save_trades writes the copy
SecondSave(i) ==
    /\ calls[i].pc = "second_save"
    /\ LET c == calls[i] IN
       IF c.request.kind = "add"
       THEN LET pf == SyncTradeToPortfolio(c.portfolio, c.request.trade[1])
            IN /\ portfolio' = pf
               /\ calls' = [calls EXCEPT ![i].portfolio = pf, ![i].pc = "done"]
               /\ UNCHANGED trades
       ELSE LET log == WithoutTrade(c.trades_data, c.request.trade_id)
            IN /\ trades' = log
               /\ calls' = [calls EXCEPT ![i].trades_data = log, ![i].pc = "done"]
               /\ UNCHANGED portfolio
    /\ CallsIdle

NextConcurrent ==
    \E i \in TwoCalls :
       \/ LoadTrades(i)
       \/ LoadPortfolio(i)
       \/ FirstSave(i)
       \/ SecondSave(i)

SpecConcurrent == InitConcurrent /\ [][NextConcurrent]_vars

----------------------------------------------------------------------------
(* create_portfolio_trend_graph *)

time_config ==
    [f \in {"1D", "1W", "1M", "3M", "6M", "1Y", "All"} |->
       CASE f = "1D" -> [days |-> 1, period |-> "1d", interval |-> "5m"]
         [] f = "1W" -> [days |-> 7, period |-> "7d", interval |-> "1h"]
         [] f = "1M" -> [days |-> 30, period |-> "1mo", interval |-> "1d"]
         [] f = "3M" -> [days |-> 90, period |-> "3mo", interval |-> "1d"]
         [] f = "6M" -> [days |-> 180, period |-> "6mo", interval |-> "1d"]
         [] f = "1Y" -> [days |-> 365, period |-> "1y", interval |-> "1d"]
         [] f = "All" -> [days |-> 9999, period |-> "max", interval |-> "1d"]]

\* the time windows a caller may pass; "5Y" is not in time_config
TimeFilters == {"1D", "1M", "All", "5Y"}

\* config = time_config.get(time_filter, time_config["1M"])
TimeConfig(time_filter) ==
    IF time_filter \in DOMAIN time_config
    THEN time_config[time_filter] ELSE time_config["1M"]

\* cutoff_date = today - timedelta(days=config["days"]); nothing reads it
cutoff_date(time_filter, today) == today - TimeConfig(time_filter).days

\* one row of a ticker's price table: the index timestamp and the Close
\* (0 standing for NaN)
Row(day, minute, second, close) ==
    [dt |-> [day |-> day, minute |-> minute, second |-> second], close |-> close]

\* what yf.download answers: it raises, or it returns a table per ticker
\* (no rows: the ticker is missing or its table is empty)
NoRows == [x \in Tickers |-> <<>>]

Raising == [raises |-> TRUE, data |-> NoRows]

NoData == [raises |-> FALSE, data |-> NoRows]

SomeData ==
    [raises |-> FALSE,
     data |-> [x \in Tickers |-> <<Row(HistoryCap, 570, 0, 3),
                                   Row(HistoryCap + 1, 570, 0, 1)>>]]

Downloads == {Raising, NoData, SomeData}

\* all_holdings: the shares per ticker over every account
all_holdings(pf) ==
    LET hs == AllHoldings(pf)
    IN [x \in {hs[i].ticker : i \in 1..Len(hs)} |->
          ValueOf(SelectSeq(hs, LAMBDA h : h.ticker = x), [y \in Tickers |-> 1])]

\* all_holdings.keys(): the tickers in the order they were first met
RECURSIVE HeldKeys(_)
HeldKeys(hs) ==
    IF hs = <<>> THEN <<>>
    ELSE LET front == HeldKeys(SubSeq(hs, 1, Len(hs) - 1))
             x == hs[Len(hs)].ticker
         IN IF \E i \in 1..Len(front) : front[i] = x THEN front
            ELSE Append(front, x)

\* the test that never finds the holdings empty
NoHoldings_Never(held) == FALSE

\* if not all_holdings
NoHoldings(held) == DOMAIN held = {}

\* dt_key: "%Y-%m-%d %H:%M" for the intraday windows, "%Y-%m-%d" otherwise;
\* a key is the list of the fields the format prints
dt_key(dt, time_filter) ==
    IF time_filter \in {"1D", "1W"} THEN <<dt.day, dt.minute>> ELSE <<dt.day>>

\* the order of two keys as strings
KeyBefore(a, b) ==
    \/ a[1] < b[1]
    \/ /\ a[1] = b[1]
       /\ \/ Len(a) < Len(b)
          \/ Len(a) = 2 /\ Len(b) = 2 /\ a[2] < b[2]

\* the keys in the opposite order
sorted_dates_Descending(values) ==
    LET keys == DOMAIN values
    IN [i \in 1..Cardinality(keys) |->
          CHOOSE k \in keys : Cardinality({j \in keys : KeyBefore(k, j)}) = i - 1]

\* sorted(portfolio_values.keys())
sorted_dates(values) ==
    LET keys == DOMAIN values
    IN [i \in 1..Cardinality(keys) |->
          CHOOSE k \in keys : Cardinality({j \in keys : KeyBefore(j, k)}) = i - 1]

\* "for dt, price in close_prices.items()": portfolio_values[dt_key] += price * shares
RECURSIVE AddRows(_, _, _, _)
AddRows(values, rows, shares, time_filter) ==
    IF rows = <<>> THEN values
    ELSE LET row == Head(rows)
             key == dt_key(row.dt, time_filter)
             sofar == IF key \in DOMAIN values THEN values[key] ELSE RZero
         IN AddRows(IF row.close = 0 THEN values
                    ELSE (key :> RAdd(sofar, ToRat(row.close * shares))) @@ values,
                    Tail(rows), shares, time_filter)

\* "Build portfolio value over time": the loop over all_holdings.items()
RECURSIVE PriceValues(_, _, _, _, _)
PriceValues(values, tickers, held, data, time_filter) ==
    IF tickers = <<>> THEN values
    ELSE PriceValues(AddRows(values, data[Head(tickers)], held[Head(tickers)],
                             time_filter),
                     Tail(tickers), held, data, time_filter)

\* "Fallback to stored history": portfolio_values[s['date']] = s.get('total_value', 0)
RECURSIVE SnapshotValues(_, _)
SnapshotValues(values, snapshots) ==
    IF snapshots = <<>> THEN values
    ELSE SnapshotValues((<<Head(snapshots).date>> :> Head(snapshots).total_value)
                          @@ values,
                        Tail(snapshots))

\* "Sort and create graph": the trace go.Scatter(x=sorted_dates, y=values)
SortedTrace(portfolio_values, kind) ==
    LET dates == sorted_dates(portfolio_values)
    IN [text |-> "", series |-> kind, x |-> dates,
        y |-> [i \in 1..Len(dates) |-> portfolio_values[dates[i]]]]

\* "Fallback to stored snapshots" after an exception: the stored order
StoredTrace(snapshots) ==
    [text |-> "", series |-> "snapshots",
     x |-> [i \in 1..Len(snapshots) |-> <<snapshots[i].date>>],
     y |-> [i \in 1..Len(snapshots) |-> snapshots[i].total_value]]

\* the figure returned and the yf.download requests made on the way
TrendGraph(pf, snapshots, time_filter, download) ==
    LET config == TimeConfig(time_filter)
        held == all_holdings(pf)
        request == [tickers |-> DOMAIN held, period |-> config.period,
                    interval |-> config.interval]
        from_prices == PriceValues(<<>>, HeldKeys(AllHoldings(pf)), held,
                                   download.data, time_filter)
    IN IF NoHoldings(held)
       THEN [figure |-> [text |-> "No holdings to display.", series |-> "none"],
             requested |-> <<>>]
       ELSE IF download.raises
       THEN [figure |-> IF snapshots = <<>>
                        THEN [text |-> "No portfolio history yet.", series |-> "none"]
                        ELSE StoredTrace(snapshots),
             requested |-> <<request>>]
       ELSE IF DOMAIN from_prices = {}
       THEN [figure |-> SortedTrace(SnapshotValues(<<>>, snapshots), "snapshots"),
             requested |-> <<request>>]
       ELSE [figure |-> SortedTrace(from_prices, "prices"),
             requested |-> <<request>>]

\* one call: its argument, the tables hist_data it was given, its result
create_portfolio_trend_graph(time_filter, download) ==
    /\ trend' = [time_filter |-> time_filter, hist_data |-> download.data]
                @@ TrendGraph(portfolio, history, time_filter, download)
    /\ UNCHANGED <<portfolio, trades, next_id, realized, gains_done, history,
                   clock, snapshot, settings, quotes, rebalance, alerts, calls>>

NextTrend ==
    \/ \E f \in TimeFilters, download \in Downloads :
          create_portfolio_trend_graph(f, download)
    \/ AccountAdd("A")
    \/ \E a \in AccountIds(portfolio), x \in Tickers : HoldingAdd(a, x, 2, 1, TRUE)
    \/ \E a \in AccountIds(portfolio), x \in HeldTickers(portfolio) :
          HoldingRemove(a, x)

SpecTrend == Init /\ [][NextTrend]_vars

----------------------------------------------------------------------------
(* The value series of the trend graph; update_portfolio_page *)

\* tables yf.download may return for one ticker on the first new day: no
\* row, a NaN, one day, two days, two rows of one day, two rows of one minute
NaNRow == <<Row(FirstNewDay, 570, 0, 0)>>

OneDay == <<Row(FirstNewDay - 1, 570, 0, 1)>>

TwoDays == <<Row(FirstNewDay - 1, 570, 0, 3), Row(FirstNewDay, 570, 0, 1)>>

SameDay == <<Row(FirstNewDay, 570, 0, 3), Row(FirstNewDay, 575, 0, 1)>>

SameMinute == <<Row(FirstNewDay, 570, 0, 3), Row(FirstNewDay, 570, 30, 1)>>

PriceTable(x_rows, y_rows) ==
    [raises |-> FALSE, data |-> [t \in Tickers |-> IF t = "X" THEN x_rows ELSE y_rows]]

SeriesDownloads ==
    {Raising, NoData, PriceTable(NaNRow, <<>>), PriceTable(SameDay, OneDay),
     PriceTable(TwoDays, TwoDays), PriceTable(SameMinute, SameMinute)}

SeriesPortfolios == {HeldPortfolio(2, 1, 1), HeldPortfolio(1, 0, 0)}

SeriesLengths == {0, 2, 3}

InitSeries ==
    /\ portfolio \in SeriesPortfolios
    /\ trades = <<>>
    /\ next_id = 1
    /\ realized = <<>>
    /\ gains_done = FALSE
    /\ history \in {RecordedHistory(n) : n \in SeriesLengths}
    /\ clock = FirstNewDay
    /\ snapshot = <<>>
    /\ settings = [target_allocations |-> <<>>, rebalance_threshold |-> 5]
    /\ quotes = BaseQuotes
    /\ rebalance = <<>>
    /\ alerts = <<>>
    /\ calls = <<>>
    /\ trend = <<>>

NextSeries ==
    \/ \E f \in TimeFilters, download \in SeriesDownloads :
          create_portfolio_trend_graph(f, download)
    \/ record_portfolio_snapshot
    \/ \E p \in QuotePrices : QuoteChanges("X", p)

SpecSeries == InitSeries /\ [][NextSeries]_vars

----------------------------------------------------------------------------
(* update_portfolio_page *)

\* the filters of the portfolio page: every account or one of them
AccountFilters == {"ALL", "a1", "a2"}

\* the time buttons of the portfolio page
TimePeriods == {"1D", "1M", "All"}

\* filtered_accounts: the accounts the holdings table is built from
filtered_accounts(accounts, filter_account) ==
    IF filter_account # "" /\ filter_account # "ALL"
    THEN SelectSeq(accounts, LAMBDA acc : acc.id = filter_account)
    ELSE accounts

\* update_portfolio_page on '/portfolio': the holdings table is built from
\* filtered_accounts, the graph is create_portfolio_trend_graph(time_period)
update_portfolio_page(filter_account, time_period, download) ==
    /\ trend' = [filter_account |-> filter_account, time_filter |-> time_period,
                 hist_data |-> download.data,
                 table |-> AllHoldings(filtered_accounts(portfolio, filter_account))]
                @@ TrendGraph(portfolio, history, time_period, download)
    /\ UNCHANGED <<portfolio, trades, next_id, realized, gains_done, history,
                   clock, snapshot, settings, quotes, rebalance, alerts, calls>>

NextPage ==
    \/ \E fa \in AccountFilters, tp \in TimePeriods, download \in Downloads :
          update_portfolio_page(fa, tp, download)
    \/ \E a \in AccountIds(portfolio), x \in HeldTickers(portfolio) :
          HoldingRemove(a, x)

SpecPage == InitSeries /\ [][NextPage]_vars

----------------------------------------------------------------------------
(* manage_alerts: two callbacks in flight *)

\* the alerts stored when the two requests arrive: an active alert on X and
\* a triggered alert on Y
StoredAlerts ==
    <<[id |-> 1, ticker |-> "X", type |-> "ABOVE", target_price |-> 200,
       triggered |-> FALSE, triggered_date |-> 0],
      [id |-> 2, ticker |-> "Y", type |-> "BELOW", target_price |-> 200,
       triggered |-> TRUE, triggered_date |-> 1]>>

\* the request of call i: the page is loaded, an alert is deleted or
\* dismissed, or an alert with the fresh id 2 + i is added
AlertRequests(i) ==
    {[kind |-> "load", id |-> 0], [kind |-> "delete", id |-> 1],
     [kind |-> "dismiss", id |-> 2], [kind |-> "add", id |-> 2 + i]}

\* new_alert of an add request
new_alert(request) ==
    [id |-> request.id, ticker |-> "X", type |-> "BELOW", target_price |-> 200,
     triggered |-> FALSE, triggered_date |-> 0]

InitAlertCalls ==
    /\ portfolio = <<>>
    /\ trades = <<>>
    /\ next_id = 5
    /\ realized = <<>>
    /\ gains_done = FALSE
    /\ history = <<>>
    /\ clock = 2
    /\ snapshot = <<>>
    /\ settings = [target_allocations |-> <<>>, rebalance_threshold |-> 5]
    /\ quotes \in {[x \in Tickers |-> IF x = "X" THEN p ELSE 190] : p \in {0, 190, 205}}
    /\ rebalance = <<>>
    /\ alerts = StoredAlerts
    /\ calls \in {[i \in TwoCalls |-> [request |-> IF i = 1 THEN r1 ELSE r2,
                                      pc |-> "load_alerts",
                                      alerts_data |-> <<>>]] :
                     r1 \in AlertRequests(1), r2 \in AlertRequests(2)}
    /\ trend = <<>>

AlertCallsIdle ==
    UNCHANGED <<portfolio, trades, next_id, realized, gains_done, history,
                clock, snapshot, settings, quotes, rebalance, trend>>

\* alerts_data = load_alerts()
AlertLoad(i) ==
    /\ calls[i].pc = "load_alerts"
    /\ calls' = [calls EXCEPT ![i].alerts_data = alerts, ![i].pc = "button"]
    /\ UNCHANGED alerts
    /\ AlertCallsIdle

\* "Handle add alert", "Handle delete", "Handle dismiss": the local copy is
\* changed and saved; a page load changes and saves nothing
AlertButton(i) ==
    /\ calls[i].pc = "button"
    /\ LET request == calls[i].request
           changed == IF request.kind = "add"
                      THEN Append(calls[i].alerts_data, new_alert(request))
                      ELSE IF request.kind \in {"delete", "dismiss"}
                      THEN WithoutAlert(calls[i].alerts_data, request.id)
                      ELSE calls[i].alerts_data
       IN /\ calls' = [calls EXCEPT ![i].alerts_data = changed,
                                    ![i].pc = "evaluate"]
          /\ alerts' = IF request.kind = "load" THEN alerts ELSE changed
    /\ AlertCallsIdle

\* "Check alerts and get current prices": the pass over the local copy,
\* saved when an alert was newly triggered
AlertEvaluate(i) ==
    /\ calls[i].pc = "evaluate"
    /\ LET evaluated == EvaluateAlerts(calls[i].alerts_data, quotes, clock)
       IN /\ calls' = [calls EXCEPT ![i].alerts_data = evaluated,
                                    ![i].pc = "done"]
          /\ alerts' = IF evaluated # calls[i].alerts_data THEN evaluated
                       ELSE alerts
    /\ AlertCallsIdle

NextAlertCalls ==
    \E i \in TwoCalls : AlertLoad(i) \/ AlertButton(i) \/ AlertEvaluate(i)

SpecAlertCalls == InitAlertCalls /\ [][NextAlertCalls]_vars

----------------------------------------------------------------------------
(* Replaying the trade log *)

TradesFor(log, account_id, ticker) ==
    LET Is(t) == t.account_id = account_id /\ t.ticker = ticker
    IN SelectSeq(log, Is)

\* the holdings obtained by applying the trades of a list, in list order,
\* with the formulas of ApplyTrade, starting from no holding
RECURSIVE ReplayTrades(_)
ReplayTrades(log) ==
    IF log = <<>> THEN <<>>
    ELSE LET t == log[Len(log)]
         IN SyncHoldings(ReplayTrades(SubSeq(log, 1, Len(log) - 1)),
                         t.action, t.ticker, t.shares, t.price)

\* replay in date order (log order for equal dates)
ReplayInDateOrder(log, account_id, ticker) ==
    HoldingView(ReplayTrades(SortByDate(TradesFor(log, account_id, ticker))),
                ticker)

CurrentHolding(account_id, ticker) ==
    HoldingView(HoldingsOf(portfolio, account_id), ticker)

ProjectionConsistent ==
    \A a \in AccountIds(portfolio), x \in Tickers :
        CurrentHolding(a, x) = ReplayInDateOrder(trades, a, x)

\* C1: after any sequence of ApplyTrade and ReverseTrade calls, for every
\* (account, ticker) the date-ordered replay of the remaining trades yields
\* exactly the current holding (presence, shares, avg_cost).
C1_ProjectionConsistency == ProjectionConsistent

HoldingSet(holdings) == {holdings[i] : i \in 1..Len(holdings)}

SameHoldings(pf1, pf2) ==
    /\ AccountIds(pf1) = AccountIds(pf2)
    /\ \A a \in AccountIds(pf1) :
          HoldingSet(HoldingsOf(pf1, a)) = HoldingSet(HoldingsOf(pf2, a))

IsApplyStep == Len(trades') = Len(trades) + 1

AppliedTrade == trades'[Len(trades')]

\* C2: ApplyTrade(t) immediately followed by ReverseTrade(t.id) leaves the
\* holdings as they were before ApplyTrade(t), for a trade applied to a
\* consistent state.  On every ApplyTrade step the portfolio that deleting
\* the new trade produces is compared with the portfolio before the step.
C2_ReversalInverse ==
    [][(IsApplyStep /\ ProjectionConsistent)
         => SameHoldings(ReversePortfolioChanges(portfolio', AppliedTrade),
                         portfolio)]_vars

----------------------------------------------------------------------------
(* Sums over the trades of one (account, ticker) *)

RECURSIVE SumShares(_, _)
SumShares(log, action) ==
    IF log = <<>> THEN 0
    ELSE (IF Head(log).action = action THEN Head(log).shares ELSE 0)
         + SumShares(Tail(log), action)

RECURSIVE SumBuyCost(_)
SumBuyCost(log) ==
    IF log = <<>> THEN 0
    ELSE (IF Head(log).action = "BUY" THEN Head(log).shares * Head(log).price ELSE 0)
         + SumBuyCost(Tail(log))

NetShares(log) == SumShares(log, "BUY") - SumShares(log, "SELL")

\* no SELL of the list asks for more shares than the trades before it left
NoOversell(log) ==
    \A k \in 1..Len(log) : NetShares(SubSeq(log, 1, k)) >= 0

\* no BUY of the list comes after a SELL
NoBuyAfterSell(log) ==
    \A i, j \in 1..Len(log) :
        (log[i].action = "SELL" /\ log[j].action = "BUY") => j < i

Pairs == LedgerAccounts \X Tickers

\* C3 as stated: after any sequence of ApplyTrade calls the holding's shares
\* are the BUY shares minus the SELL shares of the sequence.
C3_SharesAreNet ==
    \A pr \in Pairs :
        LET h == CurrentHolding(pr[1], pr[2])
        IN h # <<>> => h[1].shares = NetShares(TradesFor(trades, pr[1], pr[2]))

\* C3 amended: when no SELL of the sequence exceeds the shares held at that
\* moment, the holding's shares are the BUY shares minus the SELL shares, and
\* there is no holding exactly when that difference is 0.
C3_SharesAreNetWithoutOversell ==
    \A pr \in Pairs :
        LET h == CurrentHolding(pr[1], pr[2])
            mine == TradesFor(trades, pr[1], pr[2])
        IN NoOversell(mine) =>
             /\ h = <<>> <=> NetShares(mine) = 0
             /\ h # <<>> => h[1].shares = NetShares(mine)

\* two BUYs and a SELL of one ticker in one account, none overselling, with
\* shares left
C3_Witness ==
    \E pr \in Pairs :
        LET h == CurrentHolding(pr[1], pr[2])
            mine == TradesFor(trades, pr[1], pr[2])
        IN /\ NoOversell(mine)
           /\ SumShares(mine, "BUY") = 3
           /\ SumShares(mine, "SELL") = 1
           /\ h # <<>> /\ h[1].shares = 2

AvgIsBuyWeighted(account_id, ticker) ==
    LET h == CurrentHolding(account_id, ticker)
        mine == TradesFor(trades, account_id, ticker)
    IN h # <<>> =>
         h[1].avg_cost = Rat(SumBuyCost(mine), SumShares(mine, "BUY"))

\* a SELL step of ApplyTrade leaves the avg_cost of a holding that remains
SellKeepsAvgCost ==
    (IsApplyStep /\ AppliedTrade.action = "SELL") =>
        LET before == CurrentHolding(AppliedTrade.account_id, AppliedTrade.ticker)
            after == HoldingView(HoldingsOf(portfolio', AppliedTrade.account_id),
                                 AppliedTrade.ticker)
        IN (before # <<>> /\ after # <<>>) =>
              after[1].avg_cost = before[1].avg_cost

\* C4 as stated: after any sequence of ApplyTrade calls avg_cost is the
\* share-weighted average price of the BUY fills, and a SELL never changes it.
C4_AvgIsBuyWeighted ==
    /\ [](\A pr \in Pairs : AvgIsBuyWeighted(pr[1], pr[2]))
    /\ [][SellKeepsAvgCost]_vars

\* C4 amended: avg_cost is the share-weighted average price of the BUY fills
\* as long as no BUY of the ticker follows a SELL of it (a BUY after a SELL
\* averages the shares still held at the old avg_cost with the new fill), and
\* a SELL never changes the avg_cost of the holding it sells from.
C4_AvgIsBuyWeightedBeforeSells ==
    /\ [](\A pr \in Pairs :
             NoBuyAfterSell(TradesFor(trades, pr[1], pr[2]))
                => AvgIsBuyWeighted(pr[1], pr[2]))
    /\ [][SellKeepsAvgCost]_vars

\* BUY 1 @ 1, BUY 2 @ 3 and a SELL of 1 of one ticker in one account: the
\* holding keeps 2 shares at (1*1 + 2*3)/3
C4_Witness ==
    \E pr \in Pairs :
        LET h == CurrentHolding(pr[1], pr[2])
            mine == TradesFor(trades, pr[1], pr[2])
        IN /\ Len(mine) = 3
           /\ mine[3].action = "SELL"
           /\ SumShares(mine, "BUY") = 3
           /\ SumBuyCost(mine) = 7
           /\ h # <<>> /\ h[1].shares = 2 /\ h[1].avg_cost = Rat(7, 3)

----------------------------------------------------------------------------
(* Holdings invariant of the data model *)

UniqueTickers(holdings) ==
    \A i, j \in 1..Len(holdings) :
        holdings[i].ticker = holdings[j].ticker => i = j

PositiveShares(holdings) ==
    \A i \in 1..Len(holdings) : holdings[i].shares > 0

\* C5: in every reachable state, within each account a ticker appears in at
\* most one holding and no holding has shares <= 0, whatever operations are
\* performed (trades added and deleted, holdings added and removed by hand,
\* CSV import).
C5_HoldingsWellFormed ==
    \A i \in 1..Len(portfolio) :
        /\ UniqueTickers(portfolio[i].holdings)
        /\ PositiveShares(portfolio[i].holdings)

----------------------------------------------------------------------------
(* FIFO lot matching *)

TradeIndices(log, ticker, action) ==
    {i \in 1..Len(log) : log[i].ticker = ticker /\ log[i].action = action}

\* trade i is older than trade j: earlier date, or same date and earlier in
\* the log
Older(log, i, j) ==
    \/ log[i].date < log[j].date
    \/ log[i].date = log[j].date /\ i < j

\* the cost of the first n shares of the lots S, oldest lot first
RECURSIVE CostOfOldestShares(_, _, _)
CostOfOldestShares(log, S, n) ==
    IF S = {} \/ n <= 0 THEN 0
    ELSE LET i == CHOOSE k \in S : \A j \in S \ {k} : Older(log, k, j)
             take == Min(n, log[i].shares)
         IN take * log[i].price + CostOfOldestShares(log, S \ {i}, n - take)

RECURSIVE SumOver(_, _, _)
SumOver(log, S, proceeds) ==
    IF S = {} THEN 0
    ELSE LET i == CHOOSE k \in S : TRUE
         IN (IF proceeds THEN log[i].shares * log[i].price ELSE log[i].shares)
            + SumOver(log, S \ {i}, proceeds)

\* C6: SELL shares are matched against the BUY lots of the same ticker oldest
\* first (date ascending, log order for equal dates): cost_basis is the cost
\* of the first min(total sold, total bought) shares of the lots in that
\* order, proceeds is the sum of shares*price over the SELLs, a SELL beyond
\* the lots adds no cost; BUY 10@100, BUY 10@110, SELL 15@130 gives
\* cost_basis 1550, proceeds 1950, gain 400.
C6_FifoLotMatching ==
    gains_done =>
      /\ \A x \in DOMAIN realized :
            LET buys == TradeIndices(trades, x, "BUY")
                sells == TradeIndices(trades, x, "SELL")
                sold == SumOver(trades, sells, FALSE)
                bought == SumOver(trades, buys, FALSE)
            IN /\ realized[x].cost_basis =
                    CostOfOldestShares(trades, buys, Min(sold, bought))
               /\ realized[x].proceeds = SumOver(trades, sells, TRUE)
               /\ realized[x].shares_sold = sold
      /\ trades = ExampleLog =>
            /\ DOMAIN realized = {"X"}
            /\ realized["X"].cost_basis = 1550
            /\ realized["X"].proceeds = 1950
            /\ realized["X"].gain = 400

\* the calculator has run on BUY 10@100, BUY 10@110, SELL 15@130
C6_Witness ==
    /\ gains_done
    /\ trades = ExampleLog
    /\ "X" \in DOMAIN realized
    /\ realized["X"].cost_basis = 1550

\* C7: the result has a record for a ticker exactly when the log has a SELL
\* of that ticker, and every record has gain = proceeds - cost_basis.
C7_RecordIffSold ==
    gains_done =>
      /\ DOMAIN realized =
            {x \in Tickers : TradeIndices(trades, x, "SELL") # {}}
      /\ \A x \in DOMAIN realized :
            realized[x].gain = realized[x].proceeds - realized[x].cost_basis

\* the calculator has run on a log with a sold ticker and a ticker that was
\* only bought
C7_Witness ==
    /\ gains_done
    /\ DOMAIN realized = {"X"}
    /\ TradeIndices(trades, "Y", "BUY") # {}
    /\ realized["X"].cost_basis > 0
    /\ realized["X"].gain # realized["X"].proceeds

----------------------------------------------------------------------------
(* Snapshot history *)

SnapshotDates(snapshots) == {snapshots[i].date : i \in 1..Len(snapshots)}

SnapshotSet(snapshots) == {snapshots[i] : i \in 1..Len(snapshots)}

UniqueDates(snapshots) == Cardinality(SnapshotDates(snapshots)) = Len(snapshots)

\* a step of record_portfolio_snapshot: the only step that leaves both the
\* clock and the quotes alone
IsRecordStep == clock' = clock /\ quotes' = quotes

\* C8: recording on a date that already has a snapshot leaves exactly one
\* snapshot for that date, the one just computed, and touches no snapshot of
\* another date; histories recorded from a history with unique dates have
\* unique dates.
C8_OneSnapshotPerDate ==
    /\ [](UniqueDates(history))
    /\ [][(IsRecordStep /\ clock \in SnapshotDates(history)) =>
            /\ {s \in SnapshotSet(history') : s.date = clock}
                 = {NewSnapshot(portfolio, quotes, clock)}
            /\ {s \in SnapshotSet(history') : s.date # clock}
                 = {s \in SnapshotSet(history) : s.date # clock}
            /\ Len(history') = Len(history)]_vars

\* the last day of a full recorded history has been recorded again with
\* other quotes
C8_Witness ==
    /\ clock = FirstNewDay - 1
    /\ Len(history) = HistoryCap
    /\ snapshot # <<>>
    /\ snapshot[1].date = clock
    /\ snapshot[1] # NewSnapshot(SnapshotPortfolio, BaseQuotes, clock)
    /\ history[HistoryCap] = snapshot[1]

StrictlySortedByDate(snapshots) ==
    \A i \in 1..(Len(snapshots) - 1) : snapshots[i].date < snapshots[i + 1].date

OldestOf(S) == CHOOSE s \in S : \A t \in S : s.date <= t.date

\* C9: the history never has more than 365 snapshots and is sorted by date;
\* recording a new date into a history of 365 drops exactly the snapshot with
\* the oldest date and keeps all the others.
C9_CappedAndSorted ==
    /\ [](Len(history) <= HistoryCap /\ StrictlySortedByDate(history))
    /\ [][(IsRecordStep /\ Len(history) = HistoryCap
             /\ clock \notin SnapshotDates(history)) =>
            LET all == SnapshotSet(history) \cup {NewSnapshot(portfolio, quotes, clock)}
            IN /\ SnapshotSet(history') = all \ {OldestOf(all)}
               /\ Len(history') = HistoryCap]_vars

\* a 366th date has been recorded: the first day is gone, the new day is last
C9_Witness ==
    /\ Len(history) = HistoryCap
    /\ history[1].date = 2
    /\ history[HistoryCap].date = FirstNewDay

----------------------------------------------------------------------------
(* Rebalance advisor *)

HeldTickersOf(pf) == {AllHoldings(pf)[i].ticker : i \in 1..Len(AllHoldings(pf))}

TargetedTickers == DOMAIN settings.target_allocations

\* the market value of the holdings of a ticker that have a quote
RECURSIVE MarketValue(_, _)
MarketValue(hs, tickers) ==
    IF hs = <<>> THEN 0
    ELSE (IF Head(hs).ticker \in tickers
          THEN quotes[Head(hs).ticker] * Head(hs).shares ELSE 0)
         + MarketValue(Tail(hs), tickers)

TotalValue == MarketValue(AllHoldings(portfolio), Tickers)

\* actual_pct - target_pct, both 0 when absent
Diff(x) ==
    LET actual_pct == IF TotalValue = 0 THEN RZero
                      ELSE Rat(100 * MarketValue(AllHoldings(portfolio), {x}),
                               TotalValue)
        target_pct == IF x \in TargetedTickers
                      THEN settings.target_allocations[x] ELSE 0
    IN RSub(actual_pct, ToRat(target_pct))

Suggested(x) == x \in DOMAIN rebalance.suggestions

\* for ticker x: a suggestion exactly when |diff| > threshold, SELL of
\* diff/100*total_value when diff > 0, BUY of |diff|/100*total_value when
\* diff < 0
SuggestionIsRight(x) ==
    LET diff == Diff(x)
        amount == Rat(Abs(diff.n) * TotalValue, diff.d * 100)
    IN /\ Suggested(x) <=> RLess(ToRat(settings.rebalance_threshold), RAbs(diff))
       /\ (Suggested(x) /\ RLess(RZero, diff)) =>
             rebalance.suggestions[x] = [action |-> "SELL", amount |-> amount]
       /\ (Suggested(x) /\ RLess(diff, RZero)) =>
             rebalance.suggestions[x] = [action |-> "BUY", amount |-> amount]

\* the advisor has something to work on: a held ticker with a quote, a
\* configured target, a total value above zero
AdvisorApplicable ==
    /\ \E x \in HeldTickersOf(portfolio) : quotes[x] # 0
    /\ TargetedTickers # {}
    /\ TotalValue > 0

\* C10 as stated: for every held or targeted ticker the analytics page shows
\* a suggestion exactly when |actual_pct - target_pct| > threshold, SELL of
\* diff/100*total_value for diff > 0 and BUY of |diff|/100*total_value for
\* diff < 0.
C10_SuggestionIffOverThreshold ==
    rebalance # <<>> =>
        \A x \in HeldTickersOf(portfolio) \cup TargetedTickers : SuggestionIsRight(x)

\* C10 amended: the same, when some held ticker has a quote, a target is
\* configured and the total value is above zero; otherwise the page asks for
\* target allocations and suggests nothing.
C10_SuggestionIffOverThresholdWhenApplicable ==
    rebalance # <<>> =>
        /\ rebalance.applicable <=> AdvisorApplicable
        /\ AdvisorApplicable =>
              \A x \in HeldTickersOf(portfolio) \cup TargetedTickers :
                  SuggestionIsRight(x)
        /\ ~AdvisorApplicable => DOMAIN rebalance.suggestions = {}

\* threshold 5, X at 26% against a target of 20 and Y at 74% against a target
\* of 80: SELL 6 of X and BUY 6 of Y out of a total value of 100
C10_Witness ==
    /\ rebalance # <<>>
    /\ settings.rebalance_threshold = 5
    /\ TotalValue = 100
    /\ Diff("X") = ToRat(6)
    /\ Diff("Y") = ToRat(-6)
    /\ DOMAIN rebalance.suggestions = {"X", "Y"}
    /\ rebalance.suggestions["X"] = [action |-> "SELL", amount |-> ToRat(6)]
    /\ rebalance.suggestions["Y"] = [action |-> "BUY", amount |-> ToRat(6)]

----------------------------------------------------------------------------
(* Price alerts *)

AlertById(list, alert_id) ==
    list[CHOOSE i \in 1..Len(list) : list[i].id = alert_id]

\* a call of manage_alerts: the only steps that leave the clock and the
\* quotes alone
IsAlertsStep == clock' = clock /\ quotes' = quotes

\* C11: an alert that is triggered is triggered in the next state too, unless
\* it is gone from the list (deleted or dismissed), whatever the quotes are.
C11_TriggeredIsSticky ==
    [][\A i \in 1..Len(alerts) :
          (alerts[i].triggered /\ alerts[i].id \in AlertIds(alerts'))
             => AlertById(alerts', alerts[i].id).triggered]_vars

\* an ABOVE 200 alert on X is triggered and a later one is not, with X at
\* 180: the first triggered at 200 or more and has since been through an
\* evaluation that saw X below 200
C11_Witness ==
    /\ quotes["X"] = 180
    /\ \E i, j \in 1..Len(alerts) :
          /\ i < j
          /\ alerts[i].ticker = "X" /\ alerts[j].ticker = "X"
          /\ alerts[i].type = "ABOVE" /\ alerts[j].type = "ABOVE"
          /\ alerts[i].triggered
          /\ ~alerts[j].triggered

\* the alerts a call evaluates: those of the list after the call that were
\* not already triggered before it
WasActive(a) ==
    \/ a.id \notin AlertIds(alerts)
    \/ ~AlertById(alerts, a.id).triggered

\* C12: in an evaluation an active alert with a quote becomes triggered, with
\* triggered_date stamped with today, exactly when it is ABOVE and price >=
\* target_price or BELOW and price <= target_price; otherwise it stays
\* active with triggered_date unset.
C12_TriggerIffConditionMet ==
    [][IsAlertsStep =>
         \A i \in 1..Len(alerts') :
            LET a == alerts'[i]
                price == quotes[a.ticker]
                met == \/ a.type = "ABOVE" /\ price >= a.target_price
                       \/ a.type = "BELOW" /\ price <= a.target_price
            IN (WasActive(a) /\ price # 0) =>
                  /\ a.triggered <=> met
                  /\ a.triggered => a.triggered_date = clock
                  /\ ~a.triggered => a.triggered_date = 0]_vars

\* with X at exactly 200, an ABOVE 200 and a BELOW 200 alert on X have both
\* triggered today
C12_Witness ==
    /\ quotes["X"] = 200
    /\ \E i, j \in 1..Len(alerts) :
          /\ alerts[i].ticker = "X" /\ alerts[j].ticker = "X"
          /\ alerts[i].type = "ABOVE" /\ alerts[j].type = "BELOW"
          /\ alerts[i].target_price = 200 /\ alerts[j].target_price = 200
          /\ alerts[i].triggered /\ alerts[i].triggered_date = clock
          /\ alerts[j].triggered /\ alerts[j].triggered_date = clock

TriggeredIds(list) == {list[i].id : i \in {k \in 1..Len(list) : list[k].triggered}}

\* C13: a call never changes an alert that was already triggered (flag and
\* triggered_date stay), and evaluating again with the same quotes, on any
\* day, gives the triggered set of the first evaluation.
C13_TriggeredNeverReevaluated ==
    /\ [](\A d \in 1..MaxAlertDays :
            LET once == EvaluateAlerts(alerts, quotes, clock)
            IN TriggeredIds(EvaluateAlerts(once, quotes, d)) = TriggeredIds(once))
    /\ [][\A i \in 1..Len(alerts) :
            (alerts[i].triggered /\ alerts[i].id \in AlertIds(alerts'))
               => AlertById(alerts', alerts[i].id) = alerts[i]]_vars

\* an alert triggered on an earlier day is still dated that day while its
\* condition holds today and a later alert has triggered today
C13_Witness ==
    \E i, j \in 1..Len(alerts) :
       /\ alerts[i].triggered /\ alerts[i].triggered_date < clock
       /\ alerts[j].triggered /\ alerts[j].triggered_date = clock
       /\ alerts[i].ticker = alerts[j].ticker
       /\ alerts[i].type = alerts[j].type
       /\ quotes[alerts[i].ticker] # 0
       /\ ConditionMet(alerts[i], quotes[alerts[i].ticker])

\* C14: in one evaluation an active alert whose ticker has no quote stays
\* active, and every other active alert that has a quote and meets its
\* condition is triggered in the list the call saves.
C14_QuoteFailureIsIsolated ==
    [][IsAlertsStep =>
         \A i \in 1..Len(alerts') :
            LET a == alerts'[i] IN
            WasActive(a) =>
               /\ quotes[a.ticker] = 0 => (~a.triggered /\ a.triggered_date = 0)
               /\ (/\ quotes[a.ticker] # 0
                   /\ ConditionMet(a, quotes[a.ticker])
                   /\ \E k \in 1..Len(alerts') :
                         WasActive(alerts'[k]) /\ quotes[alerts'[k].ticker] = 0)
                  => a.triggered]_vars

\* Y has no quote and its BELOW 200 alert, which any quote of Y would
\* trigger, is still active, while an alert on X added after it has triggered
C14_Witness ==
    /\ quotes["Y"] = 0
    /\ \E i, j \in 1..Len(alerts) :
          /\ i < j
          /\ alerts[i].ticker = "Y" /\ alerts[i].type = "BELOW"
          /\ ~alerts[i].triggered
          /\ alerts[j].ticker = "X" /\ alerts[j].triggered

----------------------------------------------------------------------------
(* Rejected requests *)

WellFormed(t) ==
    /\ t.account_id # "" /\ t.date # 0 /\ t.ticker # ""
    /\ t.action \in Actions
    /\ t.shares > 0
    /\ t.price > 0

\* C15: a request with a missing field, shares <= 0 or price <= 0 changes
\* nothing: a trade that gets logged is well formed, and the holdings only
\* change in a step that changes the log.
C15_MalformedTradeRejected ==
    [][/\ IsApplyStep => WellFormed(AppliedTrade)
       /\ portfolio' # portfolio => trades' # trades]_vars

\* C16: a trade that gets logged names an account of the portfolio, and a
\* step that neither logs nor removes a trade changes neither the log nor
\* the holdings.
C16_UnknownIdChangesNothing ==
    [][/\ IsApplyStep => AppliedTrade.account_id \in AccountIds(portfolio)
       /\ Len(trades') = Len(trades) =>
             (trades' = trades /\ portfolio' = portfolio)]_vars

----------------------------------------------------------------------------
(* All-or-nothing ledger mutations *)

IsRemoveStep == Len(trades') = Len(trades) - 1

\* the trade a remove step takes out of the log
RemovedTrade ==
    trades[CHOOSE i \in 1..Len(trades) : trades[i].id \notin TradeIds(trades')]

\* C17: the saved log and the saved holdings change together or not at all:
\* a step that logs a trade saves the holdings with that trade applied, a
\* step that removes a trade saves the holdings with that trade reversed, and
\* the saved holdings never change in a step that leaves the saved log alone.
C17_AllOrNothing ==
    [][/\ IsApplyStep =>
             portfolio' = SyncTradeToPortfolio(portfolio, AppliedTrade)
       /\ IsRemoveStep =>
             portfolio' = ReversePortfolioChanges(portfolio, RemovedTrade)
       /\ portfolio' # portfolio => trades' # trades]_vars

----------------------------------------------------------------------------
(* Concurrent ledger calls *)

\* a whole call run alone on a ledger
RunAlone(ledger, request) ==
    IF request.kind = "add"
    THEN [trades |-> Append(ledger.trades, request.trade[1]),
          portfolio |-> SyncTradeToPortfolio(ledger.portfolio, request.trade[1])]
    ELSE LET k == TradeIndex(ledger.trades, request.trade_id)
         IN [trades |-> WithoutTrade(ledger.trades, request.trade_id),
             portfolio |-> IF k = 0 THEN ledger.portfolio
                           ELSE ReversePortfolioChanges(ledger.portfolio,
                                                        ledger.trades[k])]

SavedLedger == [trades |-> trades, portfolio |-> portfolio]

BothDone == \A i \in TwoCalls : calls[i].pc = "done"

\* C18: when the two calls are over, the saved log and holdings are those of
\* the two calls run one after the other, in one order or the other.
C18_CallsAreSerialized ==
    (calls # <<>> /\ BothDone) =>
        \/ SavedLedger = RunAlone(RunAlone(BaseLedger, calls[1].request),
                                  calls[2].request)
        \/ SavedLedger = RunAlone(RunAlone(BaseLedger, calls[2].request),
                                  calls[1].request)

\* C19: while an ApplyTrade call runs and the other call has not started,
\* whoever reads the two documents finds the ledger of before the call or
\* the ledger of after it, never the log of one with the holdings of the
\* other.
C19_NoPartialWriteVisible ==
    \A i, j \in TwoCalls :
       (/\ calls # <<>> /\ i # j
        /\ calls[i].request.kind = "add"
        /\ calls[j].pc = "load_trades") =>
           \/ SavedLedger = BaseLedger
           \/ SavedLedger = RunAlone(BaseLedger, calls[i].request)

----------------------------------------------------------------------------
(* Valuation without holdings *)

NoHoldingsResult ==
    [figure |-> [text |-> "No holdings to display.", series |-> "none"],
     requested |-> <<>>]

ZeroHoldings == \A i \in 1..Len(portfolio) : portfolio[i].holdings = <<>>

\* C20: when no account has a holding, the trend graph is the "No holdings
\* to display." figure and no price history is requested, for every time
\* window and whatever a download would have done; a call always returns a
\* figure.
C20_NoHoldingsNoRequest ==
    /\ [](ZeroHoldings =>
            \A f \in TimeFilters, download \in Downloads :
               TrendGraph(portfolio, history, f, download) = NoHoldingsResult)
    /\ [][(portfolio' = portfolio /\ ZeroHoldings) =>
            /\ trend'.figure = NoHoldingsResult.figure
            /\ trend'.requested = <<>>]_vars

\* the graph of the widest window has been asked for with two accounts and
\* no holding
C20_Witness ==
    /\ Len(portfolio) = 2
    /\ ZeroHoldings
    /\ trend # <<>>
    /\ trend.time_filter = "All"
    /\ trend.figure.text = "No holdings to display."
    /\ trend.requested = <<>>

----------------------------------------------------------------------------
(* The value series *)

IsSeries(figure) == figure.series # "none"

AscendingKeys(x) == \A i \in 1..(Len(x) - 1) : KeyBefore(x[i], x[i + 1])

\* C21: every series the trend graph returns, built from the price tables
\* or from the stored snapshots (after an empty result and after an
\* exception), has its keys in strictly ascending order: sorted, and no key
\* twice.
C21_SeriesAscendingAndUnique ==
    /\ \A f \in TimeFilters, download \in SeriesDownloads :
          LET figure == TrendGraph(portfolio, history, f, download).figure
          IN IsSeries(figure) =>
                AscendingKeys(figure.x) /\ Len(figure.y) = Len(figure.x)
    /\ (trend # <<>> /\ IsSeries(trend.figure)) => AscendingKeys(trend.figure.x)

\* a snapshot series of three or more points has been returned from a
\* history to which the snapshot of the day was added
C21_Witness ==
    /\ trend # <<>>
    /\ trend.figure.series = "snapshots"
    /\ Len(trend.figure.x) >= 3
    /\ Len(trend.figure.x) = Len(history)
    /\ snapshot # <<>>

----------------------------------------------------------------------------
(* Trades and their accounts *)

\* C22: in every reachable state, also after an account was deleted, the
\* account_id of every trade in the log is the id of an account in the
\* portfolio.
C22_TradesReferenceAccounts ==
    \A i \in 1..Len(trades) : trades[i].account_id \in AccountIds(portfolio)

----------------------------------------------------------------------------
(* The effect of one ApplyTrade *)

\* (old_shares*old_avg_cost + shares*price) / (old_shares + shares)
WeightedAvg(old, t) ==
    Rat(old.shares * old.avg_cost.n + t.shares * t.price * old.avg_cost.d,
        old.avg_cost.d * (old.shares + t.shares))

\* C23: one ApplyTrade appends its trade to the log and changes the holding
\* of the trade's (account, ticker) as specified: a BUY onto a holding adds
\* the shares and sets avg_cost to the weighted average, a BUY without a
\* holding creates one with the trade's shares at the trade's price, a SELL
\* subtracts the shares and removes the holding when none are left, a SELL
\* without a holding creates none.
C23_ApplyTradeEffect ==
    [][IsApplyStep =>
         LET t == AppliedTrade
             old == HoldingView(HoldingsOf(portfolio, t.account_id), t.ticker)
             new == HoldingView(HoldingsOf(portfolio', t.account_id), t.ticker)
         IN /\ SubSeq(trades', 1, Len(trades)) = trades
            /\ t.id \notin TradeIds(trades)
            /\ (t.action = "BUY" /\ old # <<>>) =>
                  new = <<[shares |-> old[1].shares + t.shares,
                           avg_cost |-> WeightedAvg(old[1], t)]>>
            /\ (t.action = "BUY" /\ old = <<>>) =>
                  new = <<[shares |-> t.shares, avg_cost |-> ToRat(t.price)]>>
            /\ (t.action = "SELL" /\ old # <<>>) =>
                  IF old[1].shares - t.shares <= 0 THEN new = <<>>
                  ELSE /\ new # <<>>
                       /\ new[1].shares = old[1].shares - t.shares
            /\ (t.action = "SELL" /\ old = <<>>) => new = <<>>]_vars

\* one share at 1 and two at 3 were bought and one share was sold: two
\* shares at the weighted average 7/3 are held
C23_Witness ==
    /\ Len(trades) = 3
    /\ trades[3].action = "SELL"
    /\ CurrentHolding("a1", "X") = <<[shares |-> 2, avg_cost |-> Rat(7, 3)]>>

----------------------------------------------------------------------------
(* Who changes holdings *)

\* an account that is there before and after the step has other holdings
HoldingsChange ==
    \E a \in AccountIds(portfolio) \cap AccountIds(portfolio') :
        HoldingsOf(portfolio, a) # HoldingsOf(portfolio', a)

\* C24: in every reachable state of the whole program, manual add-holding,
\* remove-holding and delete-holding included, the holdings of every account
\* are the date-ordered replay of its trades, and no step changes a holding
\* without changing the trade log.
C24_HoldingsOnlyByLedger ==
    /\ [](\A a \in AccountIds(portfolio), x \in Tickers :
             CurrentHolding(a, x) = ReplayInDateOrder(trades, a, x))
    /\ [][HoldingsChange => trades' # trades]_vars

----------------------------------------------------------------------------
(* The buckets of a price series *)

\* the rows of a table that fall into a bucket and carry a price
RowsIn(rows, key, time_filter) ==
    {i \in 1..Len(rows) : rows[i].close # 0 /\ dt_key(rows[i].dt, time_filter) = key}

\* the close price of a ticker for a bucket: that of the last row of the
\* bucket, 0 when no row falls into it
CloseFor(rows, key, time_filter) ==
    LET S == RowsIn(rows, key, time_filter)
    IN IF S = {} THEN 0 ELSE rows[CHOOSE i \in S : \A j \in S : j <= i].close

\* sum over the tickers held of close price x shares held across accounts
BucketValue(pf, data, key, time_filter) ==
    LET held == all_holdings(pf)
        Sum[S \in SUBSET DOMAIN held] ==
            IF S = {} THEN 0
            ELSE LET x == CHOOSE x \in S : TRUE
                 IN CloseFor(data[x], key, time_filter) * held[x] + Sum[S \ {x}]
    IN ToRat(Sum[DOMAIN held])

IsGraphStep == trend' # trend

\* C25: in a series built from price tables, the value of every bucket is
\* the sum over the tickers held of (the ticker's close price for the bucket
\* x the shares held across accounts), each ticker counted once per bucket:
\* a second row of a ticker in a bucket replaces the first.
C25_BucketIsSumOverTickers ==
    [][(IsGraphStep /\ trend'.figure.series = "prices") =>
          \A i \in 1..Len(trend'.figure.x) :
              trend'.figure.y[i] = BucketValue(portfolio, trend'.hist_data,
                                              trend'.figure.x[i], trend'.time_filter)]_vars


\* C26: when the download raises or yields no priced row, the series is
\* taken from the stored snapshots restricted to the lookback window: no
\* point is dated before today minus the days of the window, and every
\* point carries the total_value of the snapshot of its date.
C26_FallbackWithinLookback ==
    [][(IsGraphStep /\ trend'.figure.series = "snapshots") =>
          \A i \in 1..Len(trend'.figure.x) :
              /\ trend'.figure.x[i][1] >= cutoff_date(trend'.time_filter, clock)
              /\ \E k \in 1..Len(history) :
                    /\ history[k].date = trend'.figure.x[i][1]
                    /\ history[k].total_value = trend'.figure.y[i]]_vars

----------------------------------------------------------------------------
(* The account filter of a valuation *)

IsFilteredGraphStep == IsGraphStep /\ trend'.filter_account # "ALL"

\* C27: when the valuation is requested with an account filter, only the
\* holdings of the accounts in scope contribute: the result is the one the
\* accounts in scope alone would give, prices are requested for their
\* tickers only, and when they hold nothing the result is "No holdings to
\* display." even if other accounts have holdings.
C27_FilterLimitsScope ==
    [][IsFilteredGraphStep =>
          LET scope == SelectSeq(portfolio,
                                 LAMBDA acc : acc.id = trend'.filter_account)
          IN /\ AllHoldings(scope) = <<>> =>
                   /\ trend'.figure.text = "No holdings to display."
                   /\ trend'.requested = <<>>
             /\ \A i \in 1..Len(trend'.requested) :
                   trend'.requested[i].tickers \subseteq HeldTickers(scope)
             /\ trend'.figure.series = "prices" =>
                   trend'.figure =
                      TrendGraph(scope, history, trend'.time_filter,
                                 [raises |-> FALSE, data |-> trend'.hist_data]).figure]_vars

----------------------------------------------------------------------------
(* The advisor without a total value or without targets *)

IsAnalyticsStep == rebalance' # rebalance /\ rebalance' # <<>>

NotApplicable == [applicable |-> FALSE, suggestions |-> <<>>]

\* C28: whenever the total value of the priced holdings is 0 or no target
\* allocation is configured, the analytics page shows the "not applicable"
\* content and no BUY/SELL suggestion; no page is the result of a division
\* by a total_value of 0.
C28_NotApplicableWithoutValueOrTargets ==
    [][IsAnalyticsStep =>
          /\ (TotalValue = 0 \/ TargetedTickers = {}) => rebalance' = NotApplicable
          /\ "error" \notin DOMAIN rebalance']_vars

\* the page was rendered with targets configured for priced holdings worth
\* 0 in total
C28_Witness ==
    /\ rebalance = NotApplicable
    /\ TargetedTickers # {}
    /\ \E x \in HeldTickersOf(portfolio) : quotes[x] # 0
    /\ TotalValue = 0

----------------------------------------------------------------------------
(* What a trade leaves alone *)

\* the holdings of an account that are not the trade's (account, ticker)
HoldingsOutside(pf, a, t) ==
    IF a # t.account_id THEN HoldingsOf(pf, a)
    ELSE SelectSeq(HoldingsOf(pf, a), LAMBDA h : h.ticker # t.ticker)

\* the log without the trade
TradesOutside(log, t) == SelectSeq(log, LAMBDA u : u.id # t.id)

FrameKept(t) ==
    /\ [i \in 1..Len(portfolio') |-> portfolio'[i].id]
         = [i \in 1..Len(portfolio) |-> portfolio[i].id]
    /\ \A a \in AccountIds(portfolio) :
          HoldingsOutside(portfolio', a, t) = HoldingsOutside(portfolio, a, t)
    /\ TradesOutside(trades', t) = TradesOutside(trades, t)

----------------------------------------------------------------------------
(* Alerts under two requests *)

\* call j has saved the change of its button
ButtonSaved(j) == calls[j].pc \in {"evaluate", "done"}

IsEvaluateStep(i) == calls[i].pc = "evaluate" /\ calls'[i].pc = "done"

\* C30: the evaluation pass of one request never undoes what another
\* request has saved: an alert whose delete or dismiss was saved and that
\* is gone from the stored alerts does not reappear with the pass, and an
\* alert whose creation was saved and that is stored is not lost with it.
C30_EvaluateKeepsUserChanges ==
    [][\A i \in TwoCalls, j \in TwoCalls :
          (i # j /\ IsEvaluateStep(i) /\ ButtonSaved(j)) =>
             /\ (/\ calls[j].request.kind \in {"delete", "dismiss"}
                 /\ calls[j].request.id \notin AlertIds(alerts)) =>
                   calls[j].request.id \notin AlertIds(alerts')
             /\ (/\ calls[j].request.kind = "add"
                 /\ calls[j].request.id \in AlertIds(alerts)) =>
                   calls[j].request.id \in AlertIds(alerts')]_vars

====
